---- MODULE Spec2Model ----
(***************************************************************************)
(* A model of the proctoring analytics pipeline (backend/app): the         *)
(* adaptive frame sampler, the gaze deviation tracker, the behaviour       *)
(* analyzer's sliding windows, the risk scorer and process_frame, which    *)
(* ties them together.                                                     *)
(*                                                                         *)
(* Units.  Times (time.time(), frame timestamps, durations) are integers   *)
(* in tenths of a second.  Angles are degrees scaled by AngleScale, so     *)
(* that the moving average of up to HEAD_POSE_SMOOTHING_WINDOW integer     *)
(* angles is exact.  Confidences are tenths.  Scores are integers scaled   *)
(* by ScoreScale, so that the multiplier 1.3 and the window ratios are     *)
(* exact.                                                                  *)
(***************************************************************************)
EXTENDS Integers, Sequences, FiniteSets, TLC

VARIABLES
    gaze_detector,      \* DetectionPipeline.gaze_detector: the one GazeDetector
    frame_sampler,      \* DetectionPipeline.frame_sampler: the one AdaptiveFrameSampler
    session_history,    \* BehaviorAnalyzer.session_history: session id -> window
    skipped_frames,     \* DetectionPipeline._skipped_frames
    now,                \* the wall clock read by time.time()
    results,            \* the dictionary returned by the last call
    track,              \* observer of the stream of gaze results (history variable)
    appended,           \* session id -> every entry appended to its window since it
                        \* was created or last cleared (history variable)
    ref,                \* a second pipeline, which is handed the frames of the
                        \* session Observed only, at the same times
    ref_results,        \* the dictionary the second pipeline returned last
    timings,            \* lengths of DetectionPipeline._processing_times and
                        \* _preprocessing_times
    manager,            \* the ConnectionManager (services/websocket_manager.py)
    endpoint,           \* session id -> the websocket_endpoint coroutine serving it
    reply,              \* the message the last step sent to a client, if any
    broadcast,          \* the coroutine that runs ConnectionManager.broadcast
    inflight            \* the coroutines and worker threads in flight, each at its position

vars == <<gaze_detector, frame_sampler, session_history, skipped_frames, now,
          results, track, appended, ref, ref_results, timings, manager, endpoint,
          reply,
          broadcast, inflight>>

(***************************************************************************)
(* Bounds of the model.                                                    *)
(***************************************************************************)
MaxClock == 45
WindowSize == 3
HEAD_POSE_SMOOTHING_WINDOW == 3
MaxFrames == 3
MaxFaultFrames == 2
MaxAppends == 5
MaxItems == 2
MaxPersons == 3
MaxSamplerFrames == 3
MaxSocketFrames == 2

(***************************************************************************)
(* Program constants (config.py), in the units above.                      *)
(***************************************************************************)
None == -1

MINOR_YAW_THRESHOLD == 30
MINOR_PITCH_THRESHOLD == 25
SCREEN_YAW_THRESHOLD == 45
SCREEN_PITCH_THRESHOLD == 35
DEVIATION_GRACE_PERIOD == 15
DEVIATION_CONSISTENCY_PERCENT == 60
GAZE_DEVIATION_DURATION == 30
GAZE_EXTENDED_DURATION == 100
GAZE_CRITICAL_DURATION == 200
SECONDARY_PERSON_WEIGHT == 60
FORBIDDEN_OBJECT_WEIGHT == 70
SCREEN_DEVIATION_BASE_WEIGHT == 50
SCREEN_DEVIATION_EXTENDED_WEIGHT == 70
SCREEN_DEVIATION_CRITICAL_WEIGHT == 90
MULTIPLE_VIOLATIONS_MULTIPLIER_TENTHS == 13
MOTION_THRESHOLD == 10
MIN_FPS == 2
MAX_FPS == 10
TIMING_WINDOW == 100

(***************************************************************************)
(* Arithmetic helpers.                                                     *)
(***************************************************************************)
Abs(x) == IF x < 0 THEN -x ELSE x

Min(a, b) == IF a <= b THEN a ELSE b

Max(a, b) == IF a >= b THEN a ELSE b

RECURSIVE Gcd(_, _)
Gcd(a, b) == IF b = 0 THEN a ELSE Gcd(b, a % b)

RECURSIVE LcmUpTo(_)
LcmUpTo(n) == IF n <= 1 THEN 1 ELSE LET l == LcmUpTo(n - 1) IN (l * n) \div Gcd(l, n)

RECURSIVE SumSeq(_)
SumSeq(s) == IF s = <<>> THEN 0 ELSE Head(s) + SumSeq(Tail(s))

RECURSIVE CountTrue(_)
CountTrue(s) == IF s = <<>> THEN 0 ELSE (IF Head(s) THEN 1 ELSE 0) + CountTrue(Tail(s))

\* mutant of DequeAppend: a full deque refuses the new element
DequeAppendKeepsOldest(q, x, maxlen) ==
    IF Len(q) < maxlen THEN Append(q, x) ELSE q

\* collections.deque(maxlen=n).append(x)
DequeAppend(q, x, maxlen) ==
    IF Len(q) < maxlen THEN Append(q, x) ELSE Append(Tail(q), x)

AngleScale == LcmUpTo(HEAD_POSE_SMOOTHING_WINDOW)

(***************************************************************************)
(* GazeDetector (detectors/gaze_detector.py).  The bounding-box histories  *)
(* are geometry only: they are appended to and cleared together with the   *)
(* angle histories and read by nothing but the boxes of the result, and    *)
(* are left out.                                                           *)
(***************************************************************************)
GazeDetectorInit ==
    [ deviation_start_time |-> None,
      current_deviation_duration |-> 0,
      last_normal_time |-> None,
      yaw_history |-> <<>>,
      pitch_history |-> <<>>,
      deviation_history |-> <<>> ]

\* np.mean(list(history)), scaled by AngleScale
SmoothedAngle(history) == (SumSeq(history) * AngleScale) \div Len(history)

\* _check_deviation(yaw, pitch) on scaled angles
CheckDeviation(yaw, pitch) ==
    [ minor_deviation |->
          \/ Abs(yaw) > MINOR_YAW_THRESHOLD * AngleScale
          \/ Abs(pitch) > MINOR_PITCH_THRESHOLD * AngleScale,
      screen_deviation |->
          \/ Abs(yaw) > SCREEN_YAW_THRESHOLD * AngleScale
          \/ Abs(pitch) > SCREEN_PITCH_THRESHOLD * AngleScale ]

\* deviation_consistency >= settings.DEVIATION_CONSISTENCY_THRESHOLD
IsSustainedDeviation(deviation_history) ==
    /\ Len(deviation_history) > 0
    /\ CountTrue(deviation_history) * 100
           >= DEVIATION_CONSISTENCY_PERCENT * Len(deviation_history)

\* mutants of GraceElapsed: a strict comparison; no grace period at all
GraceElapsedStrict(time_since_normal) == time_since_normal > DEVIATION_GRACE_PERIOD

GraceElapsedAtOnce(time_since_normal) == TRUE

\* time_since_normal >= settings.DEVIATION_GRACE_PERIOD
GraceElapsed(time_since_normal) == time_since_normal >= DEVIATION_GRACE_PERIOD

\* mutant of UpdateDeviationDurationWithGrace: the duration is computed only on
\* the frame that starts the timer
UpdateDeviationDurationOnceOnly(gd, is_deviation, current_time) ==
    IF is_deviation
    THEN IF gd.deviation_start_time = None
         THEN [gd EXCEPT !.deviation_start_time = current_time,
                         !.last_normal_time = None,
                         !.current_deviation_duration = 0]
         ELSE [gd EXCEPT !.last_normal_time = None]
    ELSE IF gd.deviation_start_time # None
    THEN LET normal == IF gd.last_normal_time = None
                       THEN current_time ELSE gd.last_normal_time
         IN IF GraceElapsed(current_time - normal)
            THEN [gd EXCEPT !.deviation_start_time = None,
                            !.current_deviation_duration = 0,
                            !.last_normal_time = None]
            ELSE [gd EXCEPT !.last_normal_time = normal]
    ELSE [gd EXCEPT !.current_deviation_duration = 0,
                    !.last_normal_time = None]

\* mutant of UpdateDeviationDurationWithGrace: the reset after the grace period
\* leaves the looking-normal time in place
UpdateDeviationDurationKeepsNormal(gd, is_deviation, current_time) ==
    IF is_deviation
    THEN LET start == IF gd.deviation_start_time = None
                      THEN current_time ELSE gd.deviation_start_time
         IN [gd EXCEPT !.deviation_start_time = start,
                       !.last_normal_time = None,
                       !.current_deviation_duration = current_time - start]
    ELSE IF gd.deviation_start_time # None
    THEN LET normal == IF gd.last_normal_time = None
                       THEN current_time ELSE gd.last_normal_time
         IN IF GraceElapsed(current_time - normal)
            THEN [gd EXCEPT !.deviation_start_time = None,
                            !.current_deviation_duration = 0,
                            !.last_normal_time = normal]
            ELSE [gd EXCEPT !.last_normal_time = normal]
    ELSE [gd EXCEPT !.current_deviation_duration = 0,
                    !.last_normal_time = None]

\* _update_deviation_duration_with_grace(is_deviation), time.time() = current_time
UpdateDeviationDurationWithGrace(gd, is_deviation, current_time) ==
    IF is_deviation
    THEN LET start == IF gd.deviation_start_time = None
                      THEN current_time ELSE gd.deviation_start_time
         IN [gd EXCEPT !.deviation_start_time = start,
                       !.last_normal_time = None,
                       !.current_deviation_duration = current_time - start]
    ELSE IF gd.deviation_start_time # None
    THEN LET normal == IF gd.last_normal_time = None
                       THEN current_time ELSE gd.last_normal_time
         IN IF GraceElapsed(current_time - normal)
            THEN [gd EXCEPT !.deviation_start_time = None,
                            !.current_deviation_duration = 0,
                            !.last_normal_time = None]
            ELSE [gd EXCEPT !.last_normal_time = normal]
    ELSE [gd EXCEPT !.current_deviation_duration = 0,
                    !.last_normal_time = None]

\* the dictionary _detect_sync returns when no face is found
NoFaceResults ==
    [ face_detected |-> FALSE, yaw |-> 0, pitch |-> 0, deviation |-> FALSE,
      minor_deviation |-> FALSE, deviation_duration |-> 0, confidence |-> 0 ]

\* mutant of NoFaceReset: the start time survives the frame
NoFaceResetKeepsStart(gd) ==
    [gd EXCEPT !.current_deviation_duration = 0, !.last_normal_time = None]

\* the reset of the tracker on a frame without a face
NoFaceReset(gd) ==
    [gd EXCEPT !.deviation_start_time = None,
               !.current_deviation_duration = 0,
               !.last_normal_time = None]

\* _detect_sync(frame): face, yaw, pitch are what the face mesh and the pose
\* solver find in the frame; current_time is time.time() during the call.
DetectSync(gd, face, yaw, pitch, current_time) ==
    IF ~face
    THEN [gd |-> NoFaceReset(gd), out |-> NoFaceResults]
    ELSE LET yh == DequeAppend(gd.yaw_history, yaw, HEAD_POSE_SMOOTHING_WINDOW)
             ph == DequeAppend(gd.pitch_history, pitch, HEAD_POSE_SMOOTHING_WINDOW)
             smoothed_yaw == SmoothedAngle(yh)
             smoothed_pitch == SmoothedAngle(ph)
             chk == CheckDeviation(smoothed_yaw, smoothed_pitch)
             dh == DequeAppend(gd.deviation_history, chk.screen_deviation,
                               HEAD_POSE_SMOOTHING_WINDOW)
             sustained == IsSustainedDeviation(dh)
             gd1 == [gd EXCEPT !.yaw_history = yh, !.pitch_history = ph,
                               !.deviation_history = dh]
             gd2 == UpdateDeviationDurationWithGrace(gd1, sustained, current_time)
         IN [ gd |-> gd2,
              out |-> [ face_detected |-> TRUE,
                        yaw |-> smoothed_yaw,
                        pitch |-> smoothed_pitch,
                        deviation |-> sustained,
                        minor_deviation |-> chk.minor_deviation,
                        deviation_duration |-> gd2.current_deviation_duration,
                        confidence |-> 85 ] ]

\* GazeDetector.reset()
GazeReset(gd) == GazeDetectorInit

(***************************************************************************)
(* BehaviorAnalyzer (detectors/behavior_analyzer.py).  session_history is  *)
(* a defaultdict: a function whose domain is the set of session ids that   *)
(* have an entry.  An entry holds the parallel deques gaze_deviations,     *)
(* forbidden_objects and person_counts (the timestamps deque is written    *)
(* with them and never read, and is left out).                             *)
(***************************************************************************)
ScoreScale == 100 * LcmUpTo(WindowSize)

\* the default factory of session_history
EmptyHistory ==
    [ gaze_deviations |-> <<>>, forbidden_objects |-> <<>>, person_counts |-> <<>> ]

\* self.session_history[session_id]: creates the entry when it is missing
HistoryLookup(sessions, session_id) ==
    IF session_id \in DOMAIN sessions
    THEN sessions
    ELSE [s \in DOMAIN sessions \cup {session_id} |->
             IF s = session_id THEN EmptyHistory ELSE sessions[s]]

\* mutant of UpdateHistory: the entry is appended to every window there is
UpdateHistoryEveryWindow(sessions, session_id, detection_results) ==
    LET sh == HistoryLookup(sessions, session_id)
    IN [s \in DOMAIN sh |->
           [ gaze_deviations |->
                 DequeAppend(sh[s].gaze_deviations, detection_results.gaze.deviation,
                             WindowSize),
             forbidden_objects |->
                 DequeAppend(sh[s].forbidden_objects,
                             detection_results.objects.forbidden_items, WindowSize),
             person_counts |->
                 DequeAppend(sh[s].person_counts, detection_results.objects.person_count,
                             WindowSize) ]]

\* _update_history(session_id, detection_results)
UpdateHistory(sessions, session_id, detection_results) ==
    LET sh == HistoryLookup(sessions, session_id)
        h == sh[session_id]
    IN [sh EXCEPT ![session_id] =
           [ gaze_deviations |->
                 DequeAppend(h.gaze_deviations, detection_results.gaze.deviation,
                             WindowSize),
             forbidden_objects |->
                 DequeAppend(h.forbidden_objects,
                             detection_results.objects.forbidden_items, WindowSize),
             person_counts |->
                 DequeAppend(h.person_counts, detection_results.objects.person_count,
                             WindowSize) ]]

RECURSIVE CountNonEmpty(_)
CountNonEmpty(s) ==
    IF s = <<>> THEN 0
    ELSE (IF Len(Head(s)) > 0 THEN 1 ELSE 0) + CountNonEmpty(Tail(s))

\* mutant of AvgPersonCount: the sum is divided by the capacity of the window
AvgPersonCountOverCapacity(person_counts) ==
    IF person_counts = <<>> THEN 0
    ELSE (SumSeq(person_counts) * ScoreScale) \div WindowSize

\* np.mean(person_counts) if person_counts else 0.0, scaled by ScoreScale
AvgPersonCount(person_counts) ==
    IF person_counts = <<>> THEN 0
    ELSE (SumSeq(person_counts) * ScoreScale) \div Len(person_counts)

\* min(score, 100.0)
CapPattern(score) == Min(score, 100 * ScoreScale)

\* _calculate_pattern_score(repeated_deviations, repeated_objects, avg_person_count)
CalculatePatternScore(repeated_deviations, repeated_objects, avg_person_count) ==
    LET deviation_ratio == IF WindowSize > 0
                           THEN (repeated_deviations * ScoreScale) \div WindowSize ELSE 0
        object_ratio == IF WindowSize > 0
                        THEN (repeated_objects * ScoreScale) \div WindowSize ELSE 0
    IN CapPattern(deviation_ratio * 30 + object_ratio * 40
                  + Max(0, avg_person_count - ScoreScale) * 30)

\* _generate_summary: the notes that are joined with "; "
GenerateSummary(repeated_deviations, repeated_objects, avg_person_count) ==
    LET a == IF repeated_deviations * 10 > WindowSize * 3
             THEN <<"Frequent gaze deviations detected">> ELSE <<>>
        b == IF repeated_objects * 10 > WindowSize * 2
             THEN <<"Repeated forbidden object detections">> ELSE <<>>
        c == IF avg_person_count * 2 > 3 * ScoreScale
             THEN <<"Multiple persons frequently present">> ELSE <<>>
    IN IF a \o b \o c = <<>> THEN <<"Normal behavior">> ELSE a \o b \o c

\* the pattern analysis of _analyze_sync over one session's entry
AnalyzePatterns(h) ==
    LET repeated_deviations == CountTrue(h.gaze_deviations)
        repeated_objects == CountNonEmpty(h.forbidden_objects)
        avg_person_count == AvgPersonCount(h.person_counts)
    IN [ repeated_deviations |-> repeated_deviations,
         repeated_objects |-> repeated_objects,
         pattern_score |-> CalculatePatternScore(repeated_deviations,
                                                 repeated_objects, avg_person_count),
         avg_person_count |-> avg_person_count,
         analysis_summary |-> GenerateSummary(repeated_deviations,
                                              repeated_objects, avg_person_count),
         window_frames |-> Len(h.gaze_deviations) ]

\* _analyze_sync(session_id, detection_results)
AnalyzeSync(sessions, session_id, detection_results) ==
    LET sh == UpdateHistory(sessions, session_id, detection_results)
    IN [ sessions |-> sh, out |-> AnalyzePatterns(sh[session_id]) ]

\* del d[k]: raises KeyError when the key is missing
DictDel(d, k) ==
    IF k \in DOMAIN d
    THEN [ d |-> [s \in DOMAIN d \ {k} |-> d[s]], raised |-> FALSE ]
    ELSE [ d |-> d, raised |-> TRUE ]

\* mutant of AnalyzerClear: the entry is deleted without the membership test
AnalyzerClearUnguarded(sessions, session_id) ==
    LET r == DictDel(sessions, session_id)
    IN [ sessions |-> r.d, raised |-> r.raised, deleted |-> ~r.raised ]

\* BehaviorAnalyzer.clear_session(session_id), with what the call did
AnalyzerClear(sessions, session_id) ==
    IF session_id \in DOMAIN sessions
    THEN LET r == DictDel(sessions, session_id)
         IN [ sessions |-> r.d, raised |-> r.raised, deleted |-> ~r.raised ]
    ELSE [ sessions |-> sessions, raised |-> FALSE, deleted |-> FALSE ]

\* BehaviorAnalyzer.clear_session(session_id): the dictionary it leaves
AnalyzerClearSession(sessions, session_id) == AnalyzerClear(sessions, session_id).sessions

(***************************************************************************)
(* RiskScorer (core/risk_scorer.py), built from the settings.  A           *)
(* violation is modelled by its fixed text, without the numbers that are   *)
(* formatted into it.                                                      *)
(***************************************************************************)
\* the tier of calculate_score's time-based weighting
ScreenWeight(deviation_duration) ==
    IF deviation_duration >= GAZE_CRITICAL_DURATION
    THEN SCREEN_DEVIATION_CRITICAL_WEIGHT
    ELSE IF deviation_duration >= GAZE_EXTENDED_DURATION
    THEN SCREEN_DEVIATION_EXTENDED_WEIGHT
    ELSE SCREEN_DEVIATION_BASE_WEIGHT

ScreenLabel(deviation_duration) ==
    IF deviation_duration >= GAZE_CRITICAL_DURATION
    THEN "Looking at another screen (CRITICAL)"
    ELSE IF deviation_duration >= GAZE_EXTENDED_DURATION
    THEN "Looking at another screen (extended)"
    ELSE "Looking at another screen"

\* mutant of ScreenScored: a minor deviation is scored like a screen deviation
ScreenScoredOrMinor(gaze_results) ==
    /\ gaze_results.deviation \/ gaze_results.minor_deviation
    /\ gaze_results.deviation_duration >= GAZE_DEVIATION_DURATION

\* gaze_results.get("deviation") and deviation_duration >= GAZE_DEVIATION_DURATION
ScreenScored(gaze_results) ==
    /\ gaze_results.deviation
    /\ gaze_results.deviation_duration >= GAZE_DEVIATION_DURATION

\* the screen deviation contribution, scaled
ScreenContribution(gaze_results) ==
    IF ScreenScored(gaze_results)
    THEN ScreenWeight(gaze_results.deviation_duration) * ScoreScale ELSE 0

\* sum of forbidden_object_weight * item.confidence, scaled (confidence in tenths)
RECURSIVE ObjectContribution(_)
ObjectContribution(forbidden_items) ==
    IF forbidden_items = <<>> THEN 0
    ELSE (FORBIDDEN_OBJECT_WEIGHT * Head(forbidden_items).confidence * ScoreScale) \div 10
         + ObjectContribution(Tail(forbidden_items))

\* mutant of PersonContribution: the candidate is counted as well
PersonContributionEveryPerson(person_count) ==
    IF person_count > 1
    THEN SECONDARY_PERSON_WEIGHT * person_count * ScoreScale ELSE 0

\* secondary_person_weight * extra_persons, scaled
PersonContribution(person_count) ==
    IF person_count > 1
    THEN SECONDARY_PERSON_WEIGHT * (person_count - 1) * ScoreScale ELSE 0

\* mutant of ViolationCount: every forbidden item is counted
ViolationCountPerItem(gaze_results, object_results) ==
    (IF ScreenScored(gaze_results) THEN 1 ELSE 0)
    + Len(object_results.forbidden_items)
    + (IF object_results.person_count > 1 THEN 1 ELSE 0)

\* the number of violation types present
ViolationCount(gaze_results, object_results) ==
    (IF ScreenScored(gaze_results) THEN 1 ELSE 0)
    + (IF Len(object_results.forbidden_items) > 0 THEN 1 ELSE 0)
    + (IF object_results.person_count > 1 THEN 1 ELSE 0)

\* mutant of ApplyMultiplier: a single violation type is multiplied as well
ApplyMultiplierAnyViolation(base_score, violation_count) ==
    IF violation_count > 0
    THEN (base_score * MULTIPLE_VIOLATIONS_MULTIPLIER_TENTHS) \div 10
    ELSE base_score

\* if violation_count > 1: base_score *= multiple_violations_multiplier
ApplyMultiplier(base_score, violation_count) ==
    IF violation_count > 1
    THEN (base_score * MULTIPLE_VIOLATIONS_MULTIPLIER_TENTHS) \div 10
    ELSE base_score

\* mutant of CapScore: the sum is returned as it is
CapScoreNone(base_score) == base_score

\* final_score = min(base_score, 100.0)
CapScore(base_score) == Min(base_score, 100 * ScoreScale)

\* mutant of DetermineAlertLevel: a score on a threshold gets the lower level
DetermineAlertLevelAbove(score) ==
    IF score > 80 * ScoreScale THEN "critical"
    ELSE IF score > 50 * ScoreScale THEN "high"
    ELSE IF score > 20 * ScoreScale THEN "medium"
    ELSE "low"

\* _determine_alert_level(score)
DetermineAlertLevel(score) ==
    IF score >= 80 * ScoreScale THEN "critical"
    ELSE IF score >= 50 * ScoreScale THEN "high"
    ELSE IF score >= 20 * ScoreScale THEN "medium"
    ELSE "low"

\* mutant of AnyViolation: only the first violation is looked at
AnyViolationFirstOnly(violations, texts) ==
    violations # <<>> /\ violations[1] \in texts

\* "x" in v for some v of violations
AnyViolation(violations, texts) ==
    \E i \in 1..Len(violations) : violations[i] \in texts

\* _generate_recommendations(score, violations, behavior_results)
GenerateRecommendations(score, violations, behavior_results) ==
    LET tier == IF score >= 80 * ScoreScale
                THEN << "Immediate intervention required",
                        "Flag session for manual review",
                        "Consider terminating session" >>
                ELSE IF score >= 50 * ScoreScale
                THEN << "Issue warning to candidate",
                        "Increase monitoring intensity",
                        "Log incident for review" >>
                ELSE IF score >= 20 * ScoreScale
                THEN << "Monitor situation closely", "Log for pattern analysis" >>
                ELSE << "Continue normal monitoring" >>
        persons == IF AnyViolation(violations, {"Multiple persons detected"})
                   THEN << "Verify candidate identity", "Request room scan" >>
                   ELSE <<>>
        objects == IF AnyViolation(violations, {"Forbidden object detected"})
                   THEN << "Request removal of prohibited items",
                           "Verify workspace compliance" >>
                   ELSE <<>>
        summary == behavior_results.analysis_summary
        frequent == IF \E i \in 1..Len(summary) :
                          summary[i] = "Frequent gaze deviations detected"
                    THEN << "Investigate frequent attention shifts" >> ELSE <<>>
        repeated == IF \E i \in 1..Len(summary) :
                          summary[i] = "Repeated forbidden object detections"
                    THEN << "Persistent object violation - escalate" >> ELSE <<>>
    IN tier \o persons \o objects \o frequent \o repeated

\* the violations list of calculate_score
Violations(gaze_results, object_results) ==
    (IF ScreenScored(gaze_results)
     THEN <<ScreenLabel(gaze_results.deviation_duration)>> ELSE <<>>)
    \o [i \in 1..Len(object_results.forbidden_items) |-> "Forbidden object detected"]
    \o (IF object_results.person_count > 1
        THEN <<"Multiple persons detected">> ELSE <<>>)

\* mutant of CalculateScore: the pattern score is added before the multiplier
CalculateScorePatternMultiplied(detection_results) ==
    LET gaze_results == detection_results.gaze
        object_results == detection_results.objects
        behavior_results == detection_results.behavior
        violation_count == ViolationCount(gaze_results, object_results)
        violations == Violations(gaze_results, object_results)
        summed == ScreenContribution(gaze_results)
                  + ObjectContribution(object_results.forbidden_items)
                  + PersonContribution(object_results.person_count)
        pattern_score == behavior_results.pattern_score
        base_score == ApplyMultiplier(summed + pattern_score, violation_count)
        final_score == CapScore(base_score)
    IN [ risk_score |-> final_score,
         violation_count |-> violation_count,
         violations |-> violations,
         alert_level |-> DetermineAlertLevel(final_score),
         recommendations |->
             GenerateRecommendations(final_score, violations, behavior_results),
         details |->
             [ base_score |-> base_score,
               screen_deviation_contribution |-> ScreenContribution(gaze_results),
               object_contribution |->
                   ObjectContribution(object_results.forbidden_items),
               person_contribution |->
                   SECONDARY_PERSON_WEIGHT * Max(0, object_results.person_count - 1)
                       * ScoreScale,
               behavior_contribution |-> pattern_score,
               multiplier_applied |-> violation_count > 1 ] ]

\* calculate_score(detection_results)
CalculateScore(detection_results) ==
    LET gaze_results == detection_results.gaze
        object_results == detection_results.objects
        behavior_results == detection_results.behavior
        violation_count == ViolationCount(gaze_results, object_results)
        violations == Violations(gaze_results, object_results)
        summed == ScreenContribution(gaze_results)
                  + ObjectContribution(object_results.forbidden_items)
                  + PersonContribution(object_results.person_count)
        pattern_score == behavior_results.pattern_score
        base_score == ApplyMultiplier(summed, violation_count) + pattern_score
        final_score == CapScore(base_score)
    IN [ risk_score |-> final_score,
         violation_count |-> violation_count,
         violations |-> violations,
         alert_level |-> DetermineAlertLevel(final_score),
         recommendations |->
             GenerateRecommendations(final_score, violations, behavior_results),
         details |->
             [ base_score |-> base_score,
               screen_deviation_contribution |-> ScreenContribution(gaze_results),
               object_contribution |->
                   ObjectContribution(object_results.forbidden_items),
               person_contribution |->
                   SECONDARY_PERSON_WEIGHT * Max(0, object_results.person_count - 1)
                       * ScoreScale,
               behavior_contribution |-> pattern_score,
               multiplier_applied |-> violation_count > 1 ] ]

(***************************************************************************)
(* AdaptiveFrameSampler (preprocessing/image_preprocessor.py).  A frame    *)
(* is abstracted to the grey level of its blurred grayscale image (a       *)
(* uniform image), so that the mean absolute difference of two frames is   *)
(* the difference of their levels.  prev_frame is set together with        *)
(* prev_gray and never read, and is left out.                              *)
(***************************************************************************)
\* AdaptiveFrameSampler.__init__(motion_threshold, min_fps, max_fps)
FrameSampler(motion_threshold, min_fps, max_fps) ==
    [ motion_threshold |-> motion_threshold, min_fps |-> min_fps, max_fps |-> max_fps,
      prev_gray |-> None, frame_count |-> 0, processed_count |-> 0,
      last_process_time |-> 0 ]

\* the sampler the pipeline builds
FrameSamplerInit == FrameSampler(MOTION_THRESHOLD, MIN_FPS, MAX_FPS)

\* float(np.mean(cv2.absdiff(prev_gray, gray_blur)))
MotionScore(prev_gray, gray_blur) == Abs(prev_gray - gray_blur)

\* min_interval = 1.0 / max_fps, max_interval = 1.0 / min_fps, in tenths of a second
MinInterval(fs) == 10 \div fs.max_fps

MaxInterval(fs) == 10 \div fs.min_fps

\* the adaptive sampling decision for a frame that is not the first
\* mutant of SamplingDecision: a frame with motion is admitted at any rate
SamplingDecisionAnyRate(fs, motion_score, time_since_last) ==
    IF motion_score > fs.motion_threshold
    THEN "motion_detected"
    ELSE IF time_since_last >= MaxInterval(fs) THEN "min_fps_interval" ELSE ""

SamplingDecision(fs, motion_score, time_since_last) ==
    IF motion_score > fs.motion_threshold
    THEN IF time_since_last >= MinInterval(fs) THEN "motion_detected" ELSE ""
    ELSE IF time_since_last >= MaxInterval(fs) THEN "min_fps_interval" ELSE ""

\* mutant of ShouldProcessFrame: the reference frame follows every frame
ShouldProcessFrameTracksEveryFrame(fs, gray_blur, current_time) ==
    LET counted == [fs EXCEPT !.frame_count = @ + 1]
    IN IF fs.prev_gray = None
       THEN [ fs |-> [counted EXCEPT !.prev_gray = gray_blur,
                                     !.last_process_time = current_time,
                                     !.processed_count = @ + 1],
              should_process |-> TRUE,
              reason |-> "first_frame" ]
       ELSE LET reason == SamplingDecision(fs, MotionScore(fs.prev_gray, gray_blur),
                                    current_time - fs.last_process_time)
            IN IF reason # ""
               THEN [ fs |-> [counted EXCEPT !.prev_gray = gray_blur,
                                             !.last_process_time = current_time,
                                             !.processed_count = @ + 1],
                      should_process |-> TRUE,
                      reason |-> reason ]
               ELSE [ fs |-> [counted EXCEPT !.prev_gray = gray_blur],
                      should_process |-> FALSE, reason |-> "" ]

\* should_process_frame(frame, current_time)
ShouldProcessFrame(fs, gray_blur, current_time) ==
    LET counted == [fs EXCEPT !.frame_count = @ + 1]
    IN IF fs.prev_gray = None
       THEN [ fs |-> [counted EXCEPT !.prev_gray = gray_blur,
                                     !.last_process_time = current_time,
                                     !.processed_count = @ + 1],
              should_process |-> TRUE,
              reason |-> "first_frame" ]
       ELSE LET reason == SamplingDecision(fs, MotionScore(fs.prev_gray, gray_blur),
                                    current_time - fs.last_process_time)
            IN IF reason # ""
               THEN [ fs |-> [counted EXCEPT !.prev_gray = gray_blur,
                                             !.last_process_time = current_time,
                                             !.processed_count = @ + 1],
                      should_process |-> TRUE,
                      reason |-> reason ]
               ELSE [ fs |-> counted, should_process |-> FALSE, reason |-> "" ]

\* AdaptiveFrameSampler.reset()
FrameSamplerReset(fs) ==
    [fs EXCEPT !.prev_gray = None, !.frame_count = 0, !.processed_count = 0,
               !.last_process_time = 0]

(***************************************************************************)
(* Results of a call.  "invoked" records which detectors the call ran,     *)
(* "at" the wall clock time of the call and "frame" the frame it was       *)
(* given; the three are observations, not keys of the dictionary.          *)
(***************************************************************************)
\* _get_default_gaze_results()
DefaultGazeResults ==
    [ face_detected |-> FALSE, yaw |-> 0, pitch |-> 0, deviation |-> FALSE,
      minor_deviation |-> FALSE, deviation_duration |-> 0, confidence |-> 0 ]

\* _get_default_object_results()
DefaultObjectResults == [ person_count |-> 0, forbidden_items |-> <<>> ]

NoBehavior(summary) ==
    [ repeated_deviations |-> 0, repeated_objects |-> 0, pattern_score |-> 0,
      avg_person_count |-> 0, analysis_summary |-> <<summary>>, window_frames |-> 0 ]

NoDetails ==
    [ base_score |-> 0, screen_deviation_contribution |-> 0, object_contribution |-> 0,
      person_contribution |-> 0, behavior_contribution |-> 0,
      multiplier_applied |-> FALSE ]

NoRisk(alert_level, recommendations) ==
    [ risk_score |-> 0, violation_count |-> 0, violations |-> <<>>,
      alert_level |-> alert_level, recommendations |-> recommendations,
      details |-> NoDetails ]

\* the frame of a call that is not given one
NoFrame ==
    [ gray |-> 0, face |-> FALSE, yaw |-> 0, pitch |-> 0,
      objects |-> DefaultObjectResults, fault |-> "none" ]

\* the state of "results" before any call
NoResults ==
    [ kind |-> "none", session_id |-> "", gaze |-> DefaultGazeResults,
      objects |-> DefaultObjectResults, behavior |-> NoBehavior(""),
      risk |-> NoRisk("", <<>>), frame_skipped |-> FALSE, reason |-> "",
      invoked |-> {}, at |-> 0, frame |-> NoFrame ]

(***************************************************************************)
(* The observer of the gaze results: it follows the runs of frames that    *)
(* report deviation (phase "dev") and of frames that do not ("normal"),    *)
(* from the returned dictionaries and the time of the call alone.          *)
(*   run_start  time of the first frame of the current deviating run       *)
(*   pre, pre_at  duration and time reported by the last deviating frame   *)
(*   since      time of the first frame of the current non-deviating run   *)
(*   after_dev  the non-deviating run follows a deviating run              *)
(*   dip        some frame of the non-deviating run reported duration 0    *)
(*   held       every frame of the non-deviating run reported pre          *)
(*   all_face   every frame of the non-deviating run had a face            *)
(*   scored     the scorer counts the screen deviation on every frame of    *)
(*              the non-deviating run                                       *)
(***************************************************************************)
TrackInit ==
    [ phase |-> "init", run_start |-> None, pre |-> 0, pre_at |-> None,
      since |-> None, after_dev |-> FALSE, dip |-> FALSE, held |-> TRUE,
      all_face |-> TRUE, scored |-> TRUE, at |-> 0 ]

Observe(tr, out, t) ==
    IF out.deviation
    THEN [ phase |-> "dev",
           run_start |-> IF tr.phase = "dev" THEN tr.run_start ELSE t,
           pre |-> out.deviation_duration, pre_at |-> t,
           since |-> None, after_dev |-> FALSE, dip |-> FALSE, held |-> TRUE,
           all_face |-> TRUE, scored |-> TRUE, at |-> t ]
    ELSE LET first == tr.phase # "normal"
         IN [ phase |-> "normal",
              run_start |-> None,
              pre |-> tr.pre, pre_at |-> tr.pre_at,
              since |-> IF first THEN t ELSE tr.since,
              after_dev |-> IF first THEN tr.phase = "dev" ELSE tr.after_dev,
              dip |-> (~first /\ tr.dip) \/ out.deviation_duration = 0,
              held |-> (first \/ tr.held) /\ out.deviation_duration = tr.pre,
              all_face |-> (first \/ tr.all_face) /\ out.face_detected,
              scored |-> (first \/ tr.scored) /\ ScreenContribution(out) > 0,
              at |-> t ]


(***************************************************************************)
(* DetectionPipeline (core/detection_pipeline.py), as the websocket module *)
(* builds it: adaptive sampling enabled, ROI disabled.  A pipeline is the  *)
(* record of its mutable parts.  A frame is what the pipeline can see of   *)
(* it: the grey level the sampler computes, the face and head pose the     *)
(* gaze detector finds, the object detector's output, and the fault, if    *)
(* any, that is raised while it is processed:                              *)
(*   "gaze", "objects", "both"  the detector call(s) raise                 *)
(*   "conditioning"  preprocess or extract_roi raises                      *)
(*   "analysis"      behavior_analyzer.analyze raises                      *)
(*   "scoring"       risk_scorer.calculate_score raises                    *)
(*   "assembly"      the construction of the results raises                *)
(*   "sampling"      frame_sampler.should_process_frame raises             *)
(* Of the two lists of timings only the lengths are kept.                  *)
(***************************************************************************)
Sessions == {"s1", "s2"}

EnableAdaptiveSampling == TRUE

\* self._processing_times = [], self._preprocessing_times = []
TimingsInit == [ processing_times |-> 0, preprocessing_times |-> 0 ]

\* the connection manager before any connection
ManagerInit == [ active_connections |-> {}, connection_metadata |-> <<>> ]

\* no coroutine serves any session
NoMessage == [ type |-> "", data |-> "" ]

\* no coroutine serves any session; "received" is the message the coroutine
\* handled last, an observation
EndpointInit ==
    [s \in Sessions |-> [pc |-> "none", frames_processed |-> 0, received |-> NoMessage]]

\* no broadcast is running.  keys and visited are the state of the iterator
\* over active_connections; "throughout" (the sessions registered since the
\* call) and "delivered" are observations.
BroadcastInit ==
    [ pc |-> "idle", exclude |-> {}, keys |-> {}, visited |-> {}, sending |-> "",
      delivered |-> {}, throughout |-> {} ]

\* no message was sent
NoReply == [ to |-> "", type |-> "none", message |-> "" ]

\* no coroutine of a batch and no worker thread is in flight
NothingInFlight == <<>>

PipelineInit ==
    [ gaze_detector |-> GazeDetectorInit,
      frame_sampler |-> FrameSamplerInit,
      session_history |-> <<>>,
      skipped_frames |-> 0,
      timings |-> TimingsInit ]

\* _get_skipped_frame_results(session_id, timestamp, sampling_info)
SkippedFrameResults(session_id, t) ==
    [ kind |-> "frame", session_id |-> session_id, gaze |-> DefaultGazeResults,
      objects |-> DefaultObjectResults,
      behavior |-> NoBehavior("Frame skipped (low motion)"),
      risk |-> NoRisk("none", <<>>), frame_skipped |-> TRUE, reason |-> "",
      invoked |-> {}, at |-> t, frame |-> NoFrame ]

\* _get_error_results(session_id, timestamp, error_message)
ErrorResults(session_id, t, invoked) ==
    [ kind |-> "frame", session_id |-> session_id, gaze |-> DefaultGazeResults,
      objects |-> DefaultObjectResults,
      behavior |-> NoBehavior("Error in analysis"),
      risk |-> NoRisk("error", <<"System error - review logs">>),
      frame_skipped |-> FALSE, reason |-> "error", invoked |-> invoked, at |-> t,
      frame |-> NoFrame ]

\* await gaze_detector.detect(roi_frame) under gather(return_exceptions=True):
\* the call raises before the tracker is touched (in the face mesh or the pose
\* solver), or runs _detect_sync
GazeDetect(gd, frame, t) ==
    IF frame.fault \in {"gaze", "both"}
    THEN [ gd |-> gd, raised |-> TRUE, out |-> DefaultGazeResults ]
    ELSE LET r == DetectSync(gd, frame.face, frame.yaw, frame.pitch, t)
         IN [ gd |-> r.gd, raised |-> FALSE, out |-> r.out ]

\* await object_detector.detect(frame) under gather(return_exceptions=True)
ObjectDetect(frame) ==
    IF frame.fault \in {"objects", "both"}
    THEN [ raised |-> TRUE, out |-> DefaultObjectResults ]
    ELSE [ raised |-> FALSE, out |-> frame.objects ]

\* if isinstance(gaze_results, Exception): gaze_results = default
GazeOrDefault(g) == IF g.raised THEN DefaultGazeResults ELSE g.out

\* mutant of ObjectsOrDefault: the default whenever either detector raised
ObjectsOrDefaultDropped(o) == DefaultObjectResults

\* if isinstance(object_results, Exception): object_results = default
ObjectsOrDefault(o) == IF o.raised THEN DefaultObjectResults ELSE o.out

\* self._processing_times.append(...); if len(...) > 100: pop(0)
AppendProcessingTime(n) == Min(n + 1, TIMING_WINDOW)

\* _get_avg_preprocessing_time(): keeps the last 100 entries
TrimPreprocessingTimes(n) == Min(n, TIMING_WINDOW)

\* the part of process_frame after the admission of the frame
ProcessAdmitted(p, session_id, frame, reason, t) ==
    IF frame.fault = "conditioning"
    THEN [ p |-> p, results |-> ErrorResults(session_id, t, {}) ]
    ELSE
    LET p0 == [p EXCEPT !.timings.preprocessing_times = @ + 1]
        g == GazeDetect(p0.gaze_detector, frame, t)
        o == ObjectDetect(frame)
        gaze_results == GazeOrDefault(g)
        object_results == ObjectsOrDefault(o)
        p1 == [p0 EXCEPT !.gaze_detector = g.gd]
        invoked == {"gaze", "objects"}
    IN IF frame.fault = "analysis"
       THEN [ p |-> p1, results |-> ErrorResults(session_id, t, invoked) ]
       ELSE
       LET a == AnalyzeSync(p1.session_history, session_id,
                            [gaze |-> gaze_results, objects |-> object_results])
           p2 == [p1 EXCEPT !.session_history = a.sessions]
           p3 == [p2 EXCEPT !.timings.processing_times = AppendProcessingTime(@)]
       IN IF frame.fault = "scoring"
          THEN [ p |-> p2, results |-> ErrorResults(session_id, t, invoked) ]
          ELSE IF frame.fault = "assembly"
          THEN [ p |-> p3, results |-> ErrorResults(session_id, t, invoked) ]
          ELSE [ p |-> [p3 EXCEPT !.timings.preprocessing_times =
                                      TrimPreprocessingTimes(@)],
                 results |->
                     [ kind |-> "frame", session_id |-> session_id,
                       gaze |-> gaze_results, objects |-> object_results,
                       behavior |-> a.out,
                       risk |-> CalculateScore([gaze |-> gaze_results,
                                                objects |-> object_results,
                                                behavior |-> a.out]),
                       frame_skipped |-> FALSE, reason |-> reason,
                       invoked |-> invoked, at |-> t, frame |-> NoFrame ] ]

\* the exception that leaves process_frame when the sampler raises: the call
\* is outside the try block
RaisedResults(session_id, t) ==
    [NoResults EXCEPT !.kind = "raised", !.session_id = session_id, !.at = t]

\* mutant of ProcessFrame: a skipped frame is still entered in the window
ProcessFrameLogsSkipped(p, session_id, frame, timestamp, start_time) ==
    LET ts == IF timestamp = None \/ timestamp = 0 THEN start_time ELSE timestamp
    IN IF EnableAdaptiveSampling /\ frame.fault = "sampling"
       THEN [ p |-> [p EXCEPT !.frame_sampler.frame_count = @ + 1],
              results |-> RaisedResults(session_id, start_time) ]
       ELSE IF EnableAdaptiveSampling
       THEN LET sp == ShouldProcessFrame(p.frame_sampler, frame.gray, ts)
                p1 == [p EXCEPT !.frame_sampler = sp.fs]
            IN IF ~sp.should_process
               THEN [ p |-> [p1 EXCEPT
                                !.skipped_frames = @ + 1,
                                !.timings.preprocessing_times =
                                    TrimPreprocessingTimes(@),
                                !.session_history =
                                    UpdateHistory(@, session_id,
                                                  [gaze |-> DefaultGazeResults,
                                                   objects |-> DefaultObjectResults])],
                      results |-> SkippedFrameResults(session_id, start_time) ]
               ELSE ProcessAdmitted(p1, session_id, frame, sp.reason, start_time)
       ELSE ProcessAdmitted(p, session_id, frame, "disabled", start_time)

\* process_frame(frame, session_id, timestamp), with time.time() = start_time
ProcessFrame(p, session_id, frame, timestamp, start_time) ==
    LET ts == IF timestamp = None \/ timestamp = 0 THEN start_time ELSE timestamp
    IN IF EnableAdaptiveSampling /\ frame.fault = "sampling"
       THEN [ p |-> [p EXCEPT !.frame_sampler.frame_count = @ + 1],
              results |-> RaisedResults(session_id, start_time) ]
       ELSE IF EnableAdaptiveSampling
       THEN LET sp == ShouldProcessFrame(p.frame_sampler, frame.gray, ts)
                p1 == [p EXCEPT !.frame_sampler = sp.fs]
            IN IF ~sp.should_process
               THEN [ p |-> [p1 EXCEPT !.skipped_frames = @ + 1,
                                       !.timings.preprocessing_times =
                                           TrimPreprocessingTimes(@)],
                      results |-> SkippedFrameResults(session_id, start_time) ]
               ELSE ProcessAdmitted(p1, session_id, frame, sp.reason, start_time)
       ELSE ProcessAdmitted(p, session_id, frame, "disabled", start_time)

\* DetectionPipeline.clear_session(session_id)
ClearSession(p, session_id) ==
    [p EXCEPT !.session_history = AnalyzerClearSession(@, session_id)]

(***************************************************************************)
(* The gaze tracker on its own: frames handed to _detect_sync one after    *)
(* another, and reset().                                                   *)
(***************************************************************************)
\* <<yaw, pitch>> of the head poses of the frames: frontal, turned to the
\* side (either way), looking down
GazePoses == { <<0, 0>>, <<-90, 0>>, <<0, 40>> }

GazeDts == {5, 10, 15}

Init ==
    /\ gaze_detector = GazeDetectorInit
    /\ frame_sampler = FrameSamplerInit
    /\ session_history = <<>>
    /\ skipped_frames = 0
    /\ now = 0
    /\ results = NoResults
    /\ track = TrackInit
    /\ appended = [s \in Sessions |-> <<>>]
    /\ ref = PipelineInit
    /\ ref_results = NoResults
    /\ timings = TimingsInit
    /\ manager = ManagerInit
    /\ endpoint = EndpointInit
    /\ reply = NoReply
    /\ broadcast = BroadcastInit
    /\ inflight = NothingInFlight

GazeFrame ==
    \E face \in BOOLEAN, pose \in GazePoses, dt \in GazeDts :
        /\ now + dt <= MaxClock
        /\ (~face => pose = <<0, 0>>)
        /\ LET r == DetectSync(gaze_detector, face, pose[1], pose[2], now + dt)
           IN /\ gaze_detector' = r.gd
              /\ results' = [NoResults EXCEPT !.kind = "gaze", !.gaze = r.out,
                                              !.invoked = {"gaze"}, !.at = now + dt]
              /\ track' = Observe(track, r.out, now + dt)
        /\ now' = now + dt
        /\ UNCHANGED <<frame_sampler, session_history, skipped_frames, appended, ref,
                       ref_results, timings, manager, endpoint, reply, broadcast, inflight>>

GazeResetCall ==
    /\ gaze_detector' = GazeReset(gaze_detector)
    /\ results' = [NoResults EXCEPT !.kind = "reset", !.at = now]
    /\ track' = [TrackInit EXCEPT !.at = now]
    /\ UNCHANGED <<frame_sampler, session_history, skipped_frames, now, appended,
                   ref, ref_results, timings, manager, endpoint, reply, broadcast, inflight>>

NextGaze == GazeFrame \/ GazeResetCall

SpecGaze == Init /\ [][NextGaze]_vars

(***************************************************************************)
(* Properties of the gaze tracker, checked under SpecGaze.                 *)
(***************************************************************************)
Duration == results.gaze.deviation_duration

\* C4: whatever the state of the tracker, a frame without a face reports
\* deviation_duration 0 and leaves the tracker IDLE: duration 0, start time
\* and looking-normal time cleared.
C4_NoFaceResets ==
    (results.kind = "gaze" /\ ~results.gaze.face_detected) =>
        /\ Duration = 0
        /\ gaze_detector.current_deviation_duration = 0
        /\ gaze_detector.deviation_start_time = None
        /\ gaze_detector.last_normal_time = None

\* C4 witness: a frame without a face that directly follows a frame reporting
\* a deviation of positive duration.
C4_Witness ==
    /\ results.kind = "gaze" /\ ~results.gaze.face_detected
    /\ track.phase = "normal" /\ track.after_dev
    /\ track.since = track.at /\ track.pre > 0

\* C5 as claimed: on every frame of a run of frames reporting sustained
\* deviation, the duration is the time elapsed since the first frame of the run.
C5_Original ==
    track.phase = "dev" => Duration = track.at - track.run_start

\* C5 amended: on every frame of such a run the duration is the time elapsed
\* since the deviation start time, which is the first frame of the run or
\* earlier (a run resumed from GRACE keeps the original start); between two
\* consecutive frames of the run it grows by exactly the time elapsed.
C5_DurationFromStart ==
    [][ track'.phase = "dev" =>
          /\ Duration' = track'.at - gaze_detector'.deviation_start_time
          /\ gaze_detector'.deviation_start_time <= track'.run_start
          /\ Duration' >= track'.at - track'.run_start
          /\ (track.phase = "dev" => Duration' = Duration + (track'.at - track.at))
      ]_vars

\* C5 witness: a run resumed from GRACE that has gone on for some time.
C5_Witness ==
    /\ track.phase = "dev"
    /\ track.at > track.run_start
    /\ Duration > track.at - track.run_start

\* the frame on which deviation is reported again less than the grace period
\* after the first frame that did not report it
Resumption ==
    /\ track.phase = "normal" /\ track.after_dev
    /\ track'.phase = "dev"
    /\ track'.at - track.since < DEVIATION_GRACE_PERIOD

C7_ResetAfterGrace ==
    (track.phase = "normal" /\ track.at - track.since >= DEVIATION_GRACE_PERIOD) =>
        /\ Duration = 0
        /\ gaze_detector.current_deviation_duration = 0
        /\ gaze_detector.deviation_start_time = None

\* C7 witness: the grace period has run out on frames with a face, after a
\* deviation of positive duration.
C7_Witness ==
    /\ track.phase = "normal" /\ track.after_dev /\ track.all_face
    /\ track.pre > 0
    /\ track.at - track.since >= DEVIATION_GRACE_PERIOD

(***************************************************************************)
(* The risk scorer on its own: calculate_score applied to a bundle of      *)
(* detection results drawn from the bounded sets below.                    *)
(***************************************************************************)
ScoreDurations == {0, 20, 29, 30, 99, 100, 150, 199, 200}

ScoreConfidences == {0, 8, 10}

ScorePatterns == {0, 10, 20, 50, 100}

ScoreSummaries ==
    { <<"Normal behavior">>,
      <<"Frequent gaze deviations detected">>,
      <<"Frequent gaze deviations detected", "Repeated forbidden object detections">> }

ScoreItems ==
    UNION { [1..n -> [confidence : ScoreConfidences]] : n \in 0..MaxItems }

ScoreBundles ==
    { [NoResults EXCEPT
           !.kind = "bundle",
           !.gaze = [DefaultGazeResults EXCEPT !.face_detected = TRUE,
                                               !.deviation = d,
                                               !.minor_deviation = mn,
                                               !.deviation_duration = dur],
           !.objects = [person_count |-> n, forbidden_items |-> items],
           !.behavior = [NoBehavior("") EXCEPT !.pattern_score = ps * ScoreScale,
                                               !.analysis_summary = sm]] :
      d \in BOOLEAN, mn \in BOOLEAN, dur \in ScoreDurations, n \in 0..MaxPersons,
      items \in ScoreItems, ps \in ScorePatterns, sm \in ScoreSummaries }

InitScore ==
    /\ gaze_detector = GazeDetectorInit
    /\ frame_sampler = FrameSamplerInit
    /\ session_history = <<>>
    /\ skipped_frames = 0
    /\ now = 0
    /\ results \in ScoreBundles
    /\ track = TrackInit
    /\ appended = [s \in Sessions |-> <<>>]
    /\ ref = PipelineInit
    /\ ref_results = NoResults
    /\ timings = TimingsInit
    /\ manager = ManagerInit
    /\ endpoint = EndpointInit
    /\ reply = NoReply
    /\ broadcast = BroadcastInit
    /\ inflight = NothingInFlight

ScoreBundle ==
    /\ results.kind = "bundle"
    /\ results' = [results EXCEPT
                       !.kind = "scored",
                       !.risk = CalculateScore([gaze |-> results.gaze,
                                                objects |-> results.objects,
                                                behavior |-> results.behavior])]
    /\ UNCHANGED <<gaze_detector, frame_sampler, session_history, skipped_frames,
                   now, track, appended, ref, ref_results, timings, manager,
                   endpoint, reply, broadcast, inflight>>

\* the results the pipeline builds for the frame instead of scoring it, when
\* the sampler skips it
GetSkippedFrameResults ==
    /\ results.kind = "bundle"
    /\ results' = SkippedFrameResults(results.session_id, results.at)
    /\ UNCHANGED <<gaze_detector, frame_sampler, session_history, skipped_frames,
                   now, track, appended, ref, ref_results, timings, manager,
                   endpoint, reply, broadcast, inflight>>

\* the results the pipeline builds for the frame when its processing raises
GetErrorResults ==
    /\ results.kind = "bundle"
    /\ results' = ErrorResults(results.session_id, results.at, {})
    /\ UNCHANGED <<gaze_detector, frame_sampler, session_history, skipped_frames,
                   now, track, appended, ref, ref_results, timings, manager,
                   endpoint, reply, broadcast, inflight>>

NextScore == ScoreBundle \/ GetSkippedFrameResults \/ GetErrorResults

SpecScore == InitScore /\ [][NextScore]_vars

(***************************************************************************)
(* The behaviour analyzer on its own: analyze and clear_session called     *)
(* for two sessions.  "appended" logs the entries handed to each window.   *)
(***************************************************************************)
WindowBundles ==
    { [gaze |-> DefaultGazeResults, objects |-> [person_count |-> 1, forbidden_items |-> <<>>]],
      [gaze |-> [DefaultGazeResults EXCEPT !.face_detected = TRUE, !.deviation = TRUE],
       objects |-> [person_count |-> 1, forbidden_items |-> <<>>]],
      [gaze |-> DefaultGazeResults,
       objects |-> [person_count |-> 1, forbidden_items |-> <<[confidence |-> 8]>>]],
      [gaze |-> DefaultGazeResults, objects |-> [person_count |-> 3, forbidden_items |-> <<>>]],
      [gaze |-> [DefaultGazeResults EXCEPT !.face_detected = TRUE, !.deviation = TRUE],
       objects |-> [person_count |-> 3, forbidden_items |-> <<[confidence |-> 8]>>]] }

\* the entry _update_history appends for a bundle of detection results
Entry(detection_results) ==
    [ deviation |-> detection_results.gaze.deviation,
      forbidden_items |-> detection_results.objects.forbidden_items,
      person_count |-> detection_results.objects.person_count ]

TotalAppended == SumSeq([i \in 1..2 |-> Len(appended[IF i = 1 THEN "s1" ELSE "s2"])])

AnalyzeCall ==
    \E s \in Sessions, det \in WindowBundles :
        /\ TotalAppended < MaxAppends
        /\ LET a == AnalyzeSync(session_history, s, det)
           IN /\ session_history' = a.sessions
              /\ results' = [NoResults EXCEPT !.kind = "analysis", !.session_id = s,
                                              !.behavior = a.out]
        /\ appended' = [appended EXCEPT ![s] = Append(@, Entry(det))]
        /\ UNCHANGED <<gaze_detector, frame_sampler, skipped_frames, now, track, ref,
                       ref_results, timings, manager, endpoint, reply, broadcast, inflight>>

AnalyzerClearCall ==
    \E s \in Sessions :
        /\ session_history' = AnalyzerClearSession(session_history, s)
        /\ results' = [NoResults EXCEPT !.kind = "cleared", !.session_id = s]
        /\ appended' = [appended EXCEPT ![s] = <<>>]
        /\ UNCHANGED <<gaze_detector, frame_sampler, skipped_frames, now, track, ref,
                       ref_results, timings, manager, endpoint, reply, broadcast, inflight>>

NextWindow == AnalyzeCall \/ AnalyzerClearCall

SpecWindow == Init /\ [][NextWindow]_vars

(***************************************************************************)
(* The pipeline: process_frame and clear_session called for two sessions   *)
(* of one DetectionPipeline, as the websocket endpoint does.               *)
(***************************************************************************)
Pipeline ==
    [ gaze_detector |-> gaze_detector, frame_sampler |-> frame_sampler,
      session_history |-> session_history, skipped_frames |-> skipped_frames,
      timings |-> timings ]

PipeGrays == {0, 30}

PipeDts == {1, 5}

PipeGazes == { <<FALSE, 0, 0>>, <<TRUE, 0, 0>>, <<TRUE, -90, 0>> }

PipeObjects ==
    { [person_count |-> 1, forbidden_items |-> <<>>],
      [person_count |-> 2, forbidden_items |-> <<[confidence |-> 8]>>] }

Faults ==
    {"none", "gaze", "objects", "both", "conditioning", "analysis", "scoring", "assembly",
     "sampling"}

FramesWith(faults) ==
    { [gray |-> g, face |-> z[1], yaw |-> z[2], pitch |-> z[3], objects |-> o,
       fault |-> f] :
      g \in PipeGrays, z \in PipeGazes, o \in PipeObjects, f \in faults }

ProcessFrameCall ==
    \E s \in Sessions, frame \in FramesWith({"none"}), dt \in PipeDts :
        /\ frame_sampler.frame_count < MaxFrames
        /\ \E r \in {ProcessFrame(Pipeline, s, frame, None, now + dt)} :
              /\ gaze_detector' = r.p.gaze_detector
              /\ frame_sampler' = r.p.frame_sampler
              /\ session_history' = r.p.session_history
              /\ skipped_frames' = r.p.skipped_frames
              /\ timings' = r.p.timings
              /\ results' = r.results
        /\ now' = now + dt
        /\ UNCHANGED <<track, appended, ref, ref_results, manager, endpoint, reply, broadcast, inflight>>

\* what a call of clear_session did: "KeyError" when it raised, else whether
\* it found a window to delete
ClearOutcome(sessions, session_id) ==
    LET r == AnalyzerClear(sessions, session_id)
    IN IF r.raised THEN "KeyError" ELSE IF r.deleted THEN "deleted" ELSE "absent"

ClearSessionCall ==
    \E s \in Sessions :
        /\ session_history' = ClearSession(Pipeline, s).session_history
        /\ results' = [NoResults EXCEPT !.kind = "cleared", !.session_id = s,
                                        !.reason = ClearOutcome(session_history, s),
                                        !.at = now]
        /\ UNCHANGED <<gaze_detector, frame_sampler, skipped_frames, now, track,
                       appended, ref, ref_results, timings, manager, endpoint, reply, broadcast, inflight>>

Next == ProcessFrameCall \/ ClearSessionCall

Spec == Init /\ [][Next]_vars

(***************************************************************************)
(* One session whose frames may raise a fault while they are processed.    *)
(* "results" records the frame that was handed to the call.                *)
(***************************************************************************)
FaultDts == {1}

FaultyFrameCall ==
    \E frame \in FramesWith(Faults), dt \in FaultDts :
        /\ frame_sampler.frame_count < MaxFaultFrames
        /\ \E r \in {ProcessFrame(Pipeline, "s1", frame, None, now + dt)} :
              /\ gaze_detector' = r.p.gaze_detector
              /\ frame_sampler' = r.p.frame_sampler
              /\ session_history' = r.p.session_history
              /\ skipped_frames' = r.p.skipped_frames
              /\ timings' = r.p.timings
              /\ results' = [r.results EXCEPT !.frame = frame]
        /\ now' = now + dt
        /\ UNCHANGED <<track, appended, ref, ref_results, manager, endpoint, reply, broadcast, inflight>>

NextFaults == FaultyFrameCall

SpecFaults == Init /\ [][NextFaults]_vars

(***************************************************************************)
(* The frames of SpecFaults handed to a pipeline that has no timing sample *)
(* yet, or has 99 or 100 of each kind: the pipeline after that many        *)
(* admitted frames without a face, clear_session and frame_sampler.reset().*)
(***************************************************************************)
TimingStarts ==
    { TimingsInit,
      [ processing_times |-> TIMING_WINDOW - 1,
        preprocessing_times |-> TIMING_WINDOW - 1 ],
      [ processing_times |-> TIMING_WINDOW, preprocessing_times |-> TIMING_WINDOW ] }

InitTimings ==
    /\ gaze_detector = GazeDetectorInit
    /\ frame_sampler = FrameSamplerInit
    /\ session_history = <<>>
    /\ skipped_frames = 0
    /\ now = 0
    /\ results = NoResults
    /\ track = TrackInit
    /\ appended = [s \in Sessions |-> <<>>]
    /\ ref = PipelineInit
    /\ ref_results = NoResults
    /\ timings \in TimingStarts
    /\ manager = ManagerInit
    /\ endpoint = EndpointInit
    /\ reply = NoReply
    /\ broadcast = BroadcastInit
    /\ inflight = NothingInFlight

SpecTimings == InitTimings /\ [][NextFaults]_vars

(***************************************************************************)
(* Two sessions whose frames may make a detector raise.  "results" records *)
(* the frame that was handed to the call.                                  *)
(***************************************************************************)
DetectorFaults == {"none", "gaze", "objects", "both"}

DetectorFaultFrameCall ==
    \E s \in Sessions, frame \in FramesWith(DetectorFaults), dt \in FaultDts :
        /\ frame_sampler.frame_count < MaxFaultFrames
        /\ \E r \in {ProcessFrame(Pipeline, s, frame, None, now + dt)} :
              /\ gaze_detector' = r.p.gaze_detector
              /\ frame_sampler' = r.p.frame_sampler
              /\ session_history' = r.p.session_history
              /\ skipped_frames' = r.p.skipped_frames
              /\ timings' = r.p.timings
              /\ results' = [r.results EXCEPT !.frame = frame]
        /\ now' = now + dt
        /\ UNCHANGED <<track, appended, ref, ref_results, manager, endpoint, reply, broadcast, inflight>>

NextEntries == DetectorFaultFrameCall

SpecEntries == Init /\ [][NextEntries]_vars

(***************************************************************************)
(* Two sessions on one pipeline, next to a second pipeline that is handed  *)
(* the frames of the session Observed only, each at the same time.         *)
(***************************************************************************)
Observed == "s1"

IsolationFrame ==
    \E s \in Sessions, frame \in FramesWith({"none"}), dt \in PipeDts :
        /\ frame_sampler.frame_count < MaxFrames
        /\ \E r \in {ProcessFrame(Pipeline, s, frame, None, now + dt)} :
              /\ gaze_detector' = r.p.gaze_detector
              /\ frame_sampler' = r.p.frame_sampler
              /\ session_history' = r.p.session_history
              /\ skipped_frames' = r.p.skipped_frames
              /\ timings' = r.p.timings
              /\ results' = r.results
        /\ IF s = Observed
           THEN \E q \in {ProcessFrame(ref, s, frame, None, now + dt)} :
                   /\ ref' = q.p
                   /\ ref_results' = q.results
           ELSE UNCHANGED <<ref, ref_results>>
        /\ now' = now + dt
        /\ UNCHANGED <<track, appended, manager, endpoint, reply, broadcast, inflight>>

NextIsolation == IsolationFrame

SpecIsolation == Init /\ [][NextIsolation]_vars

(***************************************************************************)
(* The admission controller alone: a sampler of any configuration is       *)
(* handed frames of any brightness at any time, in any order of times.     *)
(***************************************************************************)
SamplerThresholds == {MOTION_THRESHOLD, 20}

\* frames per second whose period is a whole number of tenths of a second
SamplerFps == {MIN_FPS, 5, MAX_FPS}

SamplerGrays == {0, 10, 11, 30}

SamplerTimes == 0 .. 6

InitSampler ==
    /\ gaze_detector = GazeDetectorInit
    /\ frame_sampler \in { FrameSampler(th, lo, hi) :
                               th \in SamplerThresholds, lo \in SamplerFps,
                               hi \in SamplerFps }
    /\ session_history = <<>>
    /\ skipped_frames = 0
    /\ now = 0
    /\ results = NoResults
    /\ track = TrackInit
    /\ appended = [s \in Sessions |-> <<>>]
    /\ ref = PipelineInit
    /\ ref_results = NoResults
    /\ timings = TimingsInit
    /\ manager = ManagerInit
    /\ endpoint = EndpointInit
    /\ reply = NoReply
    /\ broadcast = BroadcastInit
    /\ inflight = NothingInFlight

ShouldProcessFrameCall ==
    \E gray \in SamplerGrays, current_time \in SamplerTimes :
        /\ frame_sampler.frame_count < MaxSamplerFrames
        /\ \E r \in {ShouldProcessFrame(frame_sampler, gray, current_time)} :
              /\ frame_sampler' = r.fs
              /\ results' = [NoResults EXCEPT !.kind = "sampled",
                                              !.frame_skipped = ~r.should_process,
                                              !.reason = r.reason,
                                              !.at = current_time,
                                              !.frame = [NoFrame EXCEPT !.gray = gray]]
        /\ UNCHANGED <<gaze_detector, session_history, skipped_frames, now, track,
                       appended, ref, ref_results, timings, manager, endpoint, reply, broadcast, inflight>>

SamplerResetCall ==
    /\ frame_sampler.frame_count > 0
    /\ frame_sampler' = FrameSamplerReset(frame_sampler)
    /\ results' = [NoResults EXCEPT !.kind = "reset"]
    /\ UNCHANGED <<gaze_detector, session_history, skipped_frames, now, track,
                   appended, ref, ref_results, timings, manager, endpoint, reply, broadcast, inflight>>

NextSampler == ShouldProcessFrameCall \/ SamplerResetCall

SpecSampler == InitSampler /\ [][NextSampler]_vars

(***************************************************************************)
(* The websocket endpoint (api/websocket.py) with the connection manager   *)
(* and the pipeline it shares among its connections.  One step is one      *)
(* pass of the receive loop of one coroutine: the message is received,     *)
(* handled and answered.  Messages are sent without transport failure      *)
(* while the session is registered.                                        *)
(***************************************************************************)
\* ConnectionManager.connect(websocket, session_id, metadata); of the
\* metadata the model keeps "frames_processed"
ManagerConnect(m, session_id, frames_processed) ==
    [ active_connections |-> m.active_connections \cup {session_id},
      connection_metadata |->
          [s \in DOMAIN m.connection_metadata \cup {session_id} |->
              IF s = session_id THEN frames_processed ELSE m.connection_metadata[s]] ]

\* ConnectionManager.disconnect(session_id)
ManagerDisconnect(m, session_id) ==
    IF session_id \in m.active_connections
    THEN [ active_connections |-> m.active_connections \ {session_id},
           connection_metadata |->
               [s \in DOMAIN m.connection_metadata \ {session_id} |->
                   m.connection_metadata[s]] ]
    ELSE m

\* ConnectionManager.send_message(session_id, message): the message that
\* reaches the client, NoReply when the session is not registered
SendMessage(m, session_id, type, message) ==
    IF session_id \notin m.active_connections
    THEN NoReply
    ELSE [ to |-> session_id, type |-> type, message |-> message ]

\* ConnectionManager.update_session_metadata(session_id, {"frames_processed": n})
UpdateSessionMetadata(m, session_id, frames_processed) ==
    IF session_id \notin DOMAIN m.connection_metadata
    THEN m
    ELSE [m EXCEPT !.connection_metadata[session_id] = frames_processed]

\* the attributes RiskScorer.__init__ sets
ScorerAttributes ==
    { "secondary_person_weight", "forbidden_object_weight",
      "screen_deviation_base_weight", "screen_deviation_extended_weight",
      "screen_deviation_critical_weight", "multiple_violations_multiplier" }

\* the attributes RiskScorer.get_scoring_config reads
ScoringConfigAttributes ==
    { "secondary_person_weight", "forbidden_object_weight",
      "gaze_deviation_weight", "multiple_violations_multiplier" }

\* RiskScorer.get_scoring_config(): reading an attribute that was never set
\* raises AttributeError
GetScoringConfig ==
    [ raised |-> ~(ScoringConfigAttributes \subseteq ScorerAttributes),
      config |-> ScoringConfigAttributes \cap ScorerAttributes ]

\* BehaviorAnalyzer.get_session_stats(session_id)
GetSessionStats(sessions, session_id) ==
    IF session_id \notin DOMAIN sessions
    THEN [ error |-> "Session not found", total_frames_analyzed |-> 0,
           total_gaze_deviations |-> 0 ]
    ELSE [ error |-> "",
           total_frames_analyzed |-> Len(sessions[session_id].gaze_deviations),
           total_gaze_deviations |-> CountTrue(sessions[session_id].gaze_deviations) ]

\* DetectionPipeline.get_session_summary(session_id)
GetSessionSummary(p, session_id) ==
    LET behavior_stats == GetSessionStats(p.session_history, session_id)
        scoring_config == GetScoringConfig
    IN [ raised |-> scoring_config.raised,
         p |-> p,
         behavior_statistics |-> behavior_stats,
         scoring_config |-> scoring_config.config ]

\* what the "data" of a frame message can be: absent, not base64, base64 of
\* bytes that are no image, base64 of an image
SocketData == {"missing", "bad_base64", "not_image", "ok"}

\* "except Exception: return None" around process_frame: r is what
\* process_frame did, returned is FALSE when None is returned
ResultsOrNone(r) ==
    [ p |-> r.p, returned |-> r.results.kind # "raised", results |-> r.results ]

\* mutant of ProcessFrameMessage: bytes that are no image are handed to the
\* pipeline, whose sampler counts the frame before it raises
ProcessFrameMessageUnchecked(p, message, session_id, t) ==
    IF message.data = "missing" \/ message.data = "bad_base64"
    THEN [ p |-> p, returned |-> FALSE, results |-> NoResults ]
    ELSE IF message.data = "not_image"
    THEN [ p |-> [p EXCEPT !.frame_sampler.frame_count = @ + 1],
           returned |-> FALSE, results |-> NoResults ]
    ELSE ResultsOrNone(ProcessFrame(p, session_id, message.frame, message.timestamp, t))

\* process_frame_message(message, session_id); returned is FALSE when the
\* function returns None
ProcessFrameMessage(p, message, session_id, t) ==
    IF message.data = "missing"
    THEN [ p |-> p, returned |-> FALSE, results |-> NoResults ]
    ELSE IF message.data = "bad_base64"
    THEN [ p |-> p, returned |-> FALSE, results |-> NoResults ]
    ELSE IF message.data = "not_image"
    THEN [ p |-> p, returned |-> FALSE, results |-> NoResults ]
    ELSE ResultsOrNone(ProcessFrame(p, session_id, message.frame, message.timestamp, t))

\* process_base64_frame(frame_data, session_id)
ProcessBase64Frame(p, text, session_id, t) ==
    IF text.data = "bad_base64"
    THEN [ p |-> p, returned |-> FALSE, results |-> NoResults ]
    ELSE IF text.data = "not_image"
    THEN [ p |-> p, returned |-> FALSE, results |-> NoResults ]
    ELSE ResultsOrNone(ProcessFrame(p, session_id, text.frame, t, t))

SocketFaults == {"none", "gaze", "scoring", "sampling"}

\* the frames the clients send: a face turned to the side, one person
SocketFrames ==
    { [gray |-> g, face |-> TRUE, yaw |-> -90, pitch |-> 0,
       objects |-> [person_count |-> 1, forbidden_items |-> <<>>], fault |-> f] :
      g \in PipeGrays, f \in SocketFaults }

SocketDts == {1, 5}

\* the effect of a step on the pipeline
SetPipeline(p) ==
    /\ gaze_detector' = p.gaze_detector
    /\ frame_sampler' = p.frame_sampler
    /\ session_history' = p.session_history
    /\ skipped_frames' = p.skipped_frames
    /\ timings' = p.timings

\* the result of a step that did not return results of the pipeline
Handled(type, session_id) ==
    [NoResults EXCEPT !.kind = type, !.session_id = session_id, !.at = now]

\* websocket_endpoint up to the receive loop: connect and welcome message
Connect(s) ==
    /\ endpoint[s].pc = "none"
    /\ manager' = ManagerConnect(manager, s, 0)
    /\ reply' = SendMessage(manager', s, "connected", "WebSocket connection established")
    /\ endpoint' = [endpoint EXCEPT ![s] = [pc |-> "loop", frames_processed |-> 0,
                                            received |-> NoMessage]]
    /\ results' = Handled("connected", s)
    /\ UNCHANGED <<gaze_detector, frame_sampler, session_history, skipped_frames,
                   now, track, appended, ref, ref_results, timings, broadcast, inflight>>

\* the loop body for a message of type "frame", given the outcome of
\* process_frame_message
FrameHandled(s, message, r) ==
    /\ SetPipeline(r.p)
    /\ results' = IF message.data = "ok"
                  THEN [r.results EXCEPT !.frame = message.frame]
                  ELSE Handled("dropped", s)
    /\ IF r.returned
       THEN /\ manager' = UpdateSessionMetadata(manager, s,
                                                endpoint[s].frames_processed + 1)
            /\ endpoint' = [endpoint EXCEPT ![s].frames_processed = @ + 1,
                                            ![s].received =
                                                [type |-> "frame", data |-> message.data]]
            /\ reply' = SendMessage(manager', s, "analysis", r.results.risk.alert_level)
       ELSE /\ manager' = manager
            /\ endpoint' = [endpoint EXCEPT ![s].received =
                                                [type |-> "frame", data |-> message.data]]
            /\ reply' = NoReply

\* a frame message whose data decodes to an image
FrameMessage(s) ==
    \E frame \in SocketFrames, dt \in SocketDts :
        /\ endpoint[s].pc = "loop"
        /\ frame_sampler.frame_count < MaxSocketFrames
        /\ now' = now + dt
        /\ \E message \in {[type |-> "frame", data |-> "ok", frame |-> frame,
                            timestamp |-> now']} :
              \E r \in {ProcessFrameMessage(Pipeline, message, s, now')} :
                  FrameHandled(s, message, r)
        /\ UNCHANGED <<track, appended, ref, ref_results, broadcast, inflight>>

\* a frame message whose data is missing or does not decode to an image
MalformedFrameMessage(s) ==
    \E data \in SocketData \ {"ok"} :
        /\ endpoint[s].pc = "loop"
        /\ \E message \in {[type |-> "frame", data |-> data, frame |-> NoFrame,
                            timestamp |-> now]} :
              \E r \in {ProcessFrameMessage(Pipeline, message, s, now)} :
                  FrameHandled(s, message, r)
        /\ UNCHANGED <<now, track, appended, ref, ref_results, broadcast, inflight>>

\* a message of type "ping"
PingMessage(s) ==
    /\ endpoint[s].pc = "loop"
    /\ reply' = SendMessage(manager, s, "pong", "")
    /\ endpoint' = [endpoint EXCEPT ![s].received = [type |-> "ping", data |-> ""]]
    /\ results' = Handled("ping", s)
    /\ UNCHANGED <<gaze_detector, frame_sampler, session_history, skipped_frames,
                   now, track, appended, ref, ref_results, timings, manager,
                   broadcast, inflight>>

\* a message of a type the endpoint does not know
UnknownMessage(s) ==
    /\ endpoint[s].pc = "loop"
    /\ reply' = SendMessage(manager, s, "error", "Unknown message type")
    /\ endpoint' = [endpoint EXCEPT ![s].received = [type |-> "unknown", data |-> ""]]
    /\ results' = Handled("unknown", s)
    /\ UNCHANGED <<gaze_detector, frame_sampler, session_history, skipped_frames,
                   now, track, appended, ref, ref_results, timings, manager,
                   broadcast, inflight>>

\* the handler "except Exception" around the loop: the error message is
\* sent, the session is removed from the manager and cleared in the
\* pipeline, and the coroutine ends
EndpointFailed(s, received, error) ==
    /\ reply' = SendMessage(manager, s, "error", error)
    /\ manager' = ManagerDisconnect(manager, s)
    /\ SetPipeline(ClearSession(Pipeline, s))
    /\ endpoint' = [endpoint EXCEPT ![s] = [pc |-> "none",
                                            frames_processed |-> @.frames_processed,
                                            received |-> received]]

\* a message of type "get_stats": get_session_summary and the "stats" reply
GetStatsMessage(s) ==
    /\ endpoint[s].pc = "loop"
    /\ \E stats \in {GetSessionSummary(Pipeline, s)} :
          /\ results' = [Handled("summary", s) EXCEPT
                            !.reason = IF stats.raised THEN "AttributeError"
                                       ELSE stats.behavior_statistics.error]
          /\ IF stats.raised
             THEN EndpointFailed(s, [type |-> "get_stats", data |-> ""], "AttributeError")
             ELSE /\ reply' = SendMessage(manager, s, "stats",
                                          stats.behavior_statistics.error)
                  /\ endpoint' = [endpoint EXCEPT ![s].received =
                                      [type |-> "get_stats", data |-> ""]]
                  /\ SetPipeline(stats.p)
                  /\ manager' = manager
    /\ UNCHANGED <<now, track, appended, ref, ref_results, broadcast, inflight>>

\* a message that is JSON but not an object: data.get raises AttributeError
NotAnObjectMessage(s) ==
    /\ endpoint[s].pc = "loop"
    /\ EndpointFailed(s, [type |-> "not_object", data |-> ""], "AttributeError")
    /\ results' = Handled("not_object", s)
    /\ UNCHANGED <<now, track, appended, ref, ref_results, broadcast, inflight>>

\* a text message that is not JSON: receive_json raises JSONDecodeError and
\* the coroutine waits in receive_text for the message after it
TextMessage(s) ==
    /\ endpoint[s].pc = "loop"
    /\ endpoint' = [endpoint EXCEPT ![s].pc = "text",
                                    ![s].received = [type |-> "text", data |-> ""]]
    /\ reply' = NoReply
    /\ results' = Handled("text", s)
    /\ UNCHANGED <<gaze_detector, frame_sampler, session_history, skipped_frames,
                   now, track, appended, ref, ref_results, timings, manager,
                   broadcast, inflight>>

\* the message after a text message that was not JSON: whatever it is, it is
\* handed to process_base64_frame.  A frame message is no base64 of an image.
NextTextHandled(s, received, r, frame) ==
    /\ SetPipeline(r.p)
    /\ results' = IF received.data = "ok"
                  THEN [r.results EXCEPT !.frame = frame]
                  ELSE Handled("dropped", s)
    /\ manager' = manager
    /\ endpoint' = [endpoint EXCEPT
                       ![s].pc = "loop",
                       ![s].frames_processed = IF r.returned THEN @ + 1 ELSE @,
                       ![s].received = received]
    /\ reply' = IF r.returned
                THEN SendMessage(manager, s, "analysis", r.results.risk.alert_level)
                ELSE NoReply

\* after a text message that was not JSON: a bare base64 frame
Base64Frame(s) ==
    \E frame \in SocketFrames, dt \in SocketDts :
        /\ endpoint[s].pc = "text"
        /\ frame_sampler.frame_count < MaxSocketFrames
        /\ now' = now + dt
        /\ \E r \in {ProcessBase64Frame(Pipeline, [data |-> "ok", frame |-> frame],
                                        s, now')} :
              NextTextHandled(s, [type |-> "base64", data |-> "ok"], r, frame)
        /\ UNCHANGED <<track, appended, ref, ref_results, broadcast, inflight>>

\* after a text message that was not JSON: a frame message with an image in
\* its data, which as a whole is not the base64 of an image
FrameMessageAsText(s) ==
    \E data \in {"bad_base64", "not_image"} :
        /\ endpoint[s].pc = "text"
        /\ \E r \in {ProcessBase64Frame(Pipeline, [data |-> data, frame |-> NoFrame],
                                        s, now)} :
              NextTextHandled(s, [type |-> "frame", data |-> "ok"], r, NoFrame)
        /\ UNCHANGED <<now, track, appended, ref, ref_results, broadcast, inflight>>

\* the client closes the connection: WebSocketDisconnect leaves the loop
ClientDisconnect(s) ==
    /\ endpoint[s].pc # "none"
    /\ manager' = ManagerDisconnect(manager, s)
    /\ SetPipeline(ClearSession(Pipeline, s))
    /\ endpoint' = [endpoint EXCEPT ![s].pc = "none",
                                    ![s].received = [type |-> "closed", data |-> ""]]
    /\ reply' = NoReply
    /\ results' = Handled("closed", s)
    /\ UNCHANGED <<now, track, appended, ref, ref_results, broadcast, inflight>>

\* the session ids that connect
Clients == {"s1"}

NextSocket ==
    \E s \in Clients :
        \/ Connect(s)
        \/ FrameMessage(s)
        \/ MalformedFrameMessage(s)
        \/ PingMessage(s)
        \/ UnknownMessage(s)
        \/ GetStatsMessage(s)
        \/ NotAnObjectMessage(s)
        \/ TextMessage(s)
        \/ Base64Frame(s)
        \/ FrameMessageAsText(s)
        \/ ClientDisconnect(s)

SpecSocket == Init /\ [][NextSocket]_vars

(***************************************************************************)
(* ConnectionManager.broadcast next to the coroutines that connect and     *)
(* disconnect sessions.  The coroutines are scheduled cooperatively: the   *)
(* others run while broadcast is suspended in the send of its loop body.   *)
(* The dictionary active_connections is iterated in some order of its      *)
(* keys, and every send succeeds.                                          *)
(***************************************************************************)
BroadcastSessions == {"s1", "s2", "s3"}

\* the exclude lists of the calls
BroadcastExcludes == { {}, {"s1"} }

\* next() of the iterator that "for ... in self.active_connections.items()"
\* created over the keys "keys" and that has yielded "visited", on the
\* dictionary with the keys "current": the keys it can yield, StopIteration,
\* or the RuntimeError of a dictionary that changed size.  When the keys
\* changed and the size did not, the iterator raises or goes on.
DictIterNext(keys, visited, current) ==
    IF Cardinality(current) # Cardinality(keys)
    THEN {"RuntimeError"}
    ELSE (IF current # keys THEN {"RuntimeError"} ELSE {})
         \cup (IF current \ visited = {} THEN {"StopIteration"} ELSE current \ visited)

\* broadcast from a next() of its iterator up to its next suspension (the
\* send to a session that is not excluded), its end or its exception: the
\* set of states it can reach
RECURSIVE BroadcastAdvance(_, _)
BroadcastAdvance(b, current) ==
    UNION { IF k = "RuntimeError"
            THEN {[b EXCEPT !.pc = "raised", !.sending = ""]}
            ELSE IF k = "StopIteration"
            THEN {[b EXCEPT !.pc = "done", !.sending = ""]}
            ELSE IF k \in b.exclude
            THEN BroadcastAdvance([b EXCEPT !.visited = @ \cup {k}], current)
            ELSE {[b EXCEPT !.pc = "sending", !.sending = k,
                            !.visited = @ \cup {k}]} :
            k \in DictIterNext(b.keys, b.visited, current) }

\* a call of broadcast(message, exclude), up to its first suspension
BroadcastCall ==
    \E exclude \in BroadcastExcludes :
        /\ broadcast.pc # "sending"
        /\ broadcast' \in BroadcastAdvance(
                             [ pc |-> "idle", exclude |-> exclude,
                               keys |-> manager.active_connections, visited |-> {},
                               sending |-> "", delivered |-> {},
                               throughout |-> manager.active_connections ],
                             manager.active_connections)
        /\ UNCHANGED <<gaze_detector, frame_sampler, session_history, skipped_frames,
                       now, results, track, appended, ref, ref_results, timings,
                       manager, endpoint, reply, inflight>>

\* the send returns and broadcast runs up to its next suspension
BroadcastResume ==
    /\ broadcast.pc = "sending"
    /\ broadcast' \in BroadcastAdvance(
                         [broadcast EXCEPT !.delivered = @ \cup {broadcast.sending}],
                         manager.active_connections)
    /\ UNCHANGED <<gaze_detector, frame_sampler, session_history, skipped_frames,
                   now, results, track, appended, ref, ref_results, timings,
                   manager, endpoint, reply, inflight>>

\* another coroutine registers a session: manager.connect
SessionConnects(s) ==
    /\ s \notin manager.active_connections
    /\ manager' = ManagerConnect(manager, s, 0)
    /\ UNCHANGED <<gaze_detector, frame_sampler, session_history, skipped_frames,
                   now, results, track, appended, ref, ref_results, timings,
                   endpoint, reply, broadcast, inflight>>

\* another coroutine removes a session: manager.disconnect
SessionDisconnects(s) ==
    /\ s \in manager.active_connections
    /\ manager' = ManagerDisconnect(manager, s)
    /\ broadcast' = [broadcast EXCEPT !.throughout = @ \ {s}]
    /\ UNCHANGED <<gaze_detector, frame_sampler, session_history, skipped_frames,
                   now, results, track, appended, ref, ref_results, timings,
                   endpoint, reply, inflight>>

NextBroadcast ==
    \/ BroadcastCall
    \/ BroadcastResume
    \/ \E s \in BroadcastSessions : SessionConnects(s) \/ SessionDisconnects(s)

SpecBroadcast == Init /\ [][NextBroadcast]_vars

(***************************************************************************)
(* Properties of the risk scorer, checked under SpecScore.                 *)
(***************************************************************************)
\* C2: for every bundle of detection results (any deviation flag and
\* duration, any number of forbidden items with any confidences, any person
\* count, any pattern score) the risk_score of calculate_score lies in
\* [0, 100].
C2_ScoreInRange ==
    results.kind = "scored" =>
        /\ results.risk.risk_score >= 0
        /\ results.risk.risk_score <= 100 * ScoreScale

\* C2 witness: a scored bundle whose sum before the cap exceeds 100 and whose
\* risk_score is 100.
C2_Witness ==
    /\ results.kind = "scored"
    /\ results.risk.details.base_score > 100 * ScoreScale
    /\ results.risk.risk_score = 100 * ScoreScale
    /\ Len(results.objects.forbidden_items) = MaxItems

(***************************************************************************)
(* Properties of the windows, checked under SpecWindow.                    *)
(***************************************************************************)
\* the entries of a window, oldest first
WindowEntries(h) ==
    [i \in 1..Len(h.gaze_deviations) |->
        [ deviation |-> h.gaze_deviations[i],
          forbidden_items |-> h.forbidden_objects[i],
          person_count |-> h.person_counts[i] ]]

LastEntries(log, n) == SubSeq(log, Len(log) - n + 1, Len(log))

\* C3: a session's window never holds more than window_size entries, and
\* after k appended entries it holds exactly the most recent
\* min(k, window_size) of them in arrival order: an append at capacity
\* removes the oldest entry.
C3_WindowIsMostRecent ==
    \A s \in Sessions :
        IF s \in DOMAIN session_history
        THEN LET h == session_history[s]
             IN /\ Len(h.gaze_deviations) <= WindowSize
                /\ Len(h.forbidden_objects) = Len(h.gaze_deviations)
                /\ Len(h.person_counts) = Len(h.gaze_deviations)
                /\ WindowEntries(h)
                       = LastEntries(appended[s], Min(Len(appended[s]), WindowSize))
        ELSE appended[s] = <<>>

\* C3 witness: a window that has been appended to beyond its capacity, the
\* entry it lost differing from the one that is now its oldest.
C3_Witness ==
    /\ results.kind = "analysis"
    /\ Len(appended["s1"]) = WindowSize + 2
    /\ appended["s1"][2] # appended["s1"][3]
    /\ Len(session_history["s1"].gaze_deviations) = WindowSize

(***************************************************************************)
(* Properties of process_frame.                                            *)
(***************************************************************************)
\* a step that is one call of process_frame (the sampler counts every call)
IsFrameCall == frame_sampler'.frame_count = frame_sampler.frame_count + 1

\* the deviation timer of a gaze detector
Timer(gd) ==
    <<gd.deviation_start_time, gd.current_deviation_duration, gd.last_normal_time>>

\* C8 (under Spec): a frame the sampler skips is returned with
\* frame_skipped true, risk score 0 and alert level "none"; no detector is
\* invoked for it, no window is appended to, and the gaze detector (its
\* deviation timer included) is left as it was.
C8_SkippedFrame ==
    [][ (IsFrameCall /\ results'.frame_skipped) =>
            /\ results'.kind = "frame"
            /\ results'.risk.risk_score = 0
            /\ results'.risk.alert_level = "none"
            /\ results'.invoked = {}
            /\ session_history' = session_history
            /\ gaze_detector' = gaze_detector ]_vars

\* C8 witness: a skipped frame of a session whose window is not empty, while
\* the deviation timer runs.
C8_Witness ==
    /\ results.kind = "frame"
    /\ results.frame_skipped
    /\ skipped_frames > 0
    /\ gaze_detector.deviation_start_time # None
    /\ results.session_id \in DOMAIN session_history
    /\ session_history[results.session_id].gaze_deviations # <<>>

\* C9 (under SpecFaults): when one of the two detector calls of an admitted
\* frame raises, its result is replaced by the neutral default, the result
\* of the other detector is used as it was returned, and the frame is not
\* reported as an error.
C9_DetectorFaultIsolated ==
    [][ (IsFrameCall /\ ~results'.frame_skipped
            /\ results'.frame.fault \in {"gaze", "objects", "both"}) =>
            LET f == results'.frame
            IN /\ results'.reason # "error"
               /\ results'.risk.alert_level # "error"
               /\ f.fault \in {"gaze", "both"} =>
                      results'.gaze = DefaultGazeResults
               /\ f.fault \in {"objects", "both"} =>
                      results'.objects = DefaultObjectResults
               /\ f.fault = "gaze" => results'.objects = f.objects
               /\ f.fault = "objects" =>
                      results'.gaze = DetectSync(gaze_detector, f.face, f.yaw,
                                                 f.pitch, now').out ]_vars

\* C9 witness: a frame whose gaze call raised while the object detector
\* reported a second person and a forbidden item, scored from the latter.
C9_Witness ==
    /\ results.kind = "frame"
    /\ results.frame.fault = "gaze"
    /\ results.reason = "motion_detected"
    /\ results.gaze = DefaultGazeResults
    /\ results.objects.person_count = 2
    /\ results.risk.risk_score > 0

\* C10 (under SpecFaults), as the specification states it: a frame that is
\* reported as an error leaves the session's window and the deviation timer
\* as they were before the frame.
C10_Original ==
    [][ (IsFrameCall /\ results'.reason = "error") =>
            /\ session_history' = session_history
            /\ Timer(gaze_detector') = Timer(gaze_detector) ]_vars

\* C1 (under SpecIsolation), as the specification states it: the results of
\* the frames of the session Observed (admission, deviation flag and
\* duration, behaviour summary, risk) are what they are when no other
\* session shares the pipeline.
C1_Original ==
    (results.kind = "frame" /\ results.session_id = Observed) =>
        /\ results.frame_skipped = ref_results.frame_skipped
        /\ results.gaze.deviation = ref_results.gaze.deviation
        /\ results.gaze.deviation_duration = ref_results.gaze.deviation_duration
        /\ results.behavior = ref_results.behavior
        /\ results.risk = ref_results.risk

\* the faults of a frame that are raised outside the two detector calls
PipelineFaults == {"sampling", "conditioning", "analysis", "scoring", "assembly"}

\* C11 (under SpecFaults), as the specification states it: a frame during
\* which a fault is raised outside the two detector calls is returned as an
\* error assessment (alert level "error", risk score 0, no violation, the
\* fixed recommendation); the fault does not leave process_frame.
C11_Original ==
    [][ (IsFrameCall /\ ~results'.frame_skipped
            /\ results'.frame.fault \in PipelineFaults) =>
            /\ results'.kind = "frame"
            /\ results'.risk.alert_level = "error"
            /\ results'.risk.risk_score = 0
            /\ results'.risk.violation_count = 0
            /\ results'.risk.recommendations = <<"System error - review logs">>
      ]_vars

(***************************************************************************)
(* Properties of clear_session, checked under Spec.                        *)
(***************************************************************************)
\* C12, as the specification states it: after clear_session(s) nothing built
\* from the frames of s remains: s has no window, the gaze tracker is IDLE
\* with duration 0 and empty histories, and the sampler holds no previous
\* frame and no last admission time.
C12_Original ==
    results.kind = "cleared" =>
        /\ results.session_id \notin DOMAIN session_history
        /\ gaze_detector = GazeDetectorInit
        /\ frame_sampler.prev_gray = None
        /\ frame_sampler.last_process_time = 0

\* C13: clear_session never raises; called on a session id that has no
\* window (an id that never had a frame, or one that was just cleared) it
\* leaves the whole pipeline as it was; and after any call the id has no
\* window, so that a second call in a row is such a call.
C13_ClearIdempotent ==
    [][ results'.kind = "cleared" =>
            /\ results'.reason # "KeyError"
            /\ results'.session_id \notin DOMAIN session_history'
            /\ (results'.session_id \notin DOMAIN session_history =>
                    /\ results'.reason = "absent"
                    /\ Pipeline' = Pipeline)
      ]_vars

\* C13 witness: clear_session called for a session without a window, right
\* after a call for the same session that deleted its window, while the other
\* session has a window.
C13_Witness ==
    /\ results.kind = "cleared"
    /\ results.reason = "absent"
    /\ results.session_id = "s1"
    /\ DOMAIN session_history = {"s2"}
    /\ frame_sampler.frame_count = MaxFrames

(***************************************************************************)
(* Properties of the admission of frames.                                  *)
(***************************************************************************)
\* C14 (under SpecIsolation), as the specification states it: the first
\* frame of a session is admitted, whatever frames the other session
\* submitted to the same pipeline before.  The second pipeline counts the
\* frames of the session Observed alone, so its count is 1 at the first
\* frame of Observed.
C14_Original ==
    ( /\ results.kind = "frame"
      /\ results.session_id = Observed
      /\ ref.frame_sampler.frame_count = 1 ) => ~results.frame_skipped

\* C15 (under SpecSampler): for a frame after the first handed to a sampler
\* with min_fps <= max_fps, with dt the timestamp minus the last admission
\* timestamp, the frame is admitted if and only if (motion score >
\* motion_threshold and dt >= 1/max_fps) or dt >= 1/min_fps.  Times are in
\* tenths of a second, so dt >= 1/fps reads dt * fps >= 10.
C15_AdmissionRule ==
    [][ ( /\ IsFrameCall
          /\ frame_sampler.prev_gray # None
          /\ frame_sampler.min_fps <= frame_sampler.max_fps ) =>
            LET dt == results'.at - frame_sampler.last_process_time
                motion == Abs(frame_sampler.prev_gray - results'.frame.gray)
            IN (~results'.frame_skipped) <=>
                   \/ /\ motion > frame_sampler.motion_threshold
                      /\ dt * frame_sampler.max_fps >= 10
                   \/ dt * frame_sampler.min_fps >= 10
      ]_vars

\* C15 witness: a sampler with min_fps < max_fps admitted a frame without
\* motion, other than its first, because 1/min_fps had passed.
C15_Witness ==
    /\ results.kind = "sampled"
    /\ ~results.frame_skipped
    /\ results.reason = "min_fps_interval"
    /\ frame_sampler.min_fps < frame_sampler.max_fps
    /\ frame_sampler.frame_count = 2
    /\ frame_sampler.processed_count = 2

(***************************************************************************)
(* Properties of the websocket endpoint, checked under SpecSocket.         *)
(***************************************************************************)
\* the data of a frame message that does not decode to an image
Malformed == SocketData \ {"ok"}

\* the message a coroutine handled last was a frame that failed: its text was
\* not JSON, its data did not decode, a detector failed on it or the pipeline
\* failed on it; e is the coroutine and res the results of the step
FailedFrame(e, res) ==
    \/ e.received.type = "text"
    \/ e.received.type = "frame" /\ e.received.data \in Malformed
    \/ /\ e.received.type = "frame"
       /\ e.received.data = "ok"
       /\ res.kind \in {"frame", "raised"}
       /\ res.frame.fault # "none"

\* C16, as the specification states it: after a frame of a connected session
\* failed, the session is still registered, it still has its window, the
\* coroutine is still in its receive loop, and the frame message that the
\* session sends next is handed to the pipeline.
C16_Original ==
    [][ \A s \in Clients :
          /\ FailedFrame(endpoint'[s], results') =>
                /\ s \in manager'.active_connections
                /\ endpoint'[s].pc # "none"
                /\ (s \in DOMAIN session_history => s \in DOMAIN session_history')
          /\ ( /\ FailedFrame(endpoint[s], results)
               /\ endpoint'[s].received = [type |-> "frame", data |-> "ok"] ) =>
                IsFrameCall
      ]_vars

\* C17: a frame message whose data is missing, is not base64 or does not
\* decode to an image, and a text handed to process_base64_frame that does
\* not decode to an image, leave the sampler, the gaze tracker, the windows,
\* the count of skipped frames and the timing statistics unchanged.
C17_MalformedFrameDropped ==
    [][ results'.kind = "dropped" =>
            /\ frame_sampler' = frame_sampler
            /\ gaze_detector' = gaze_detector
            /\ session_history' = session_history
            /\ skipped_frames' = skipped_frames
            /\ timings' = timings
      ]_vars

\* C17 witness: a frame message whose data is no image was dropped after a
\* frame of the session had been admitted and entered in its window.
C17_Witness ==
    /\ results.kind = "dropped"
    /\ endpoint["s1"].received = [type |-> "frame", data |-> "not_image"]
    /\ "s1" \in DOMAIN session_history
    /\ frame_sampler.processed_count > 0
    /\ timings.processing_times > 0

\* C18, as the specification states it: for every frame message that fails
\* to decode, the client that sent it receives a reply reporting the failure.
C18_Original ==
    [][ \A s \in Clients :
          ( /\ endpoint'[s].received.type = "frame"
            /\ endpoint'[s].received.data \in Malformed ) =>
                /\ reply'.to = s
                /\ reply'.type = "error"
      ]_vars

\* C19, as the specification states it: a session-summary query for a
\* session id without state does not raise, returns the not-found
\* indication and creates no state for the id.
C19_Original ==
    [][ ( /\ results'.kind = "summary"
          /\ results'.session_id \notin DOMAIN session_history ) =>
            /\ results'.reason = "Session not found"
            /\ session_history' = session_history
      ]_vars

\* C20, as the specification states it: a get_stats message of a connected
\* session is answered with a "stats" reply, and afterwards the session is
\* still connected, served by its coroutine, and its state is as before.
C20_Original ==
    [][ \A s \in Clients :
          endpoint'[s].received.type = "get_stats" =>
              /\ reply' = [to |-> s, type |-> "stats",
                           message |-> GetSessionStats(session_history, s).error]
              /\ s \in manager'.active_connections
              /\ endpoint'[s].pc = "loop"
              /\ Pipeline' = Pipeline
      ]_vars

(***************************************************************************)
(* Properties of the connection registry, checked under SpecBroadcast.     *)
(***************************************************************************)
\* C21, as the specification states it: a broadcast during which sessions
\* connect or disconnect does not raise, and when it has ended it has
\* delivered the message to every session that was registered from its call
\* to its end and is not excluded.
C21_Original ==
    /\ broadcast.pc # "raised"
    /\ broadcast.pc = "done" =>
           (broadcast.throughout \ broadcast.exclude) \subseteq broadcast.delivered

(***************************************************************************)
(* Properties of calculate_score, checked under SpecScore.                 *)
(***************************************************************************)
\* the tier weight that deviation_duration alone selects, scaled
TierOfDuration(deviation_duration) ==
    IF deviation_duration < GAZE_DEVIATION_DURATION THEN 0
    ELSE ScreenWeight(deviation_duration) * ScoreScale

\* a scored bundle without forbidden item, second person or pattern score
NoOtherViolation ==
    /\ results.objects.forbidden_items = <<>>
    /\ results.objects.person_count <= 1
    /\ results.behavior.pattern_score = 0

\* C22, as the specification states it: the screen deviation contribution of
\* a bundle is the tier weight of its deviation_duration alone (0 below 3 s),
\* and a bundle with a duration of 10 s up to 20 s and nothing else scores the
\* extended weight with alert level "high".
C22_Original ==
    results.kind = "scored" =>
        /\ results.risk.details.screen_deviation_contribution
               = TierOfDuration(results.gaze.deviation_duration)
        /\ ( /\ NoOtherViolation
             /\ results.gaze.deviation_duration >= GAZE_EXTENDED_DURATION
             /\ results.gaze.deviation_duration < GAZE_CRITICAL_DURATION )
           => /\ results.risk.risk_score
                     = SCREEN_DEVIATION_EXTENDED_WEIGHT * ScoreScale
              /\ results.risk.alert_level = "high"

\* a scored bundle in which persons are the only violation type that can be
\* present: no forbidden item and no scored gaze deviation
PersonsOnly ==
    /\ results.kind = "scored"
    /\ results.objects.forbidden_items = <<>>
    /\ ~ScreenScored(results.gaze)

\* C23, as the specification states it: with person_count = 3, no forbidden
\* item and no scored gaze deviation the risk score is twice the secondary
\* person weight, one violation is counted and the multiplier is not applied;
\* the person contribution is the weight times max(0, person_count - 1).
C23_Original ==
    PersonsOnly =>
        /\ results.risk.details.person_contribution
               = SECONDARY_PERSON_WEIGHT * Max(0, results.objects.person_count - 1)
                     * ScoreScale
        /\ results.objects.person_count = 3 =>
               /\ results.risk.risk_score = SECONDARY_PERSON_WEIGHT * 2 * ScoreScale
               /\ results.risk.violation_count = 1
               /\ ~results.risk.details.multiplier_applied

\* C23, amended: with no forbidden item and no scored gaze deviation the risk
\* score is the secondary person weight times max(0, person_count - 1) plus
\* the pattern score, capped at 100; one violation is counted when
\* person_count > 1 and none otherwise, and the multiplier is not applied.
C23_PersonsScore ==
    PersonsOnly =>
        LET extra == SECONDARY_PERSON_WEIGHT * Max(0, results.objects.person_count - 1)
                         * ScoreScale
        IN /\ results.risk.details.person_contribution = extra
           /\ results.risk.risk_score
                  = Min(100 * ScoreScale, extra + results.behavior.pattern_score)
           /\ results.risk.violation_count
                  = IF results.objects.person_count > 1 THEN 1 ELSE 0
           /\ ~results.risk.details.multiplier_applied

\* three persons and no pattern score: twice the weight exceeds the cap
C23_Witness ==
    /\ PersonsOnly
    /\ results.objects.person_count = 3
    /\ results.behavior.pattern_score = 0
    /\ results.risk.details.person_contribution > 100 * ScoreScale
    /\ results.risk.risk_score = 100 * ScoreScale
    /\ results.risk.violation_count = 1

\* the violation types present in the bundle that was scored
TypesPresent ==
    (IF ScreenScored(results.gaze) THEN {"screen"} ELSE {})
    \cup (IF results.objects.forbidden_items # <<>> THEN {"object"} ELSE {})
    \cup (IF results.objects.person_count > 1 THEN {"person"} ELSE {})

\* the three contributions reported in the details, summed
SummedContributions ==
    results.risk.details.screen_deviation_contribution
    + results.risk.details.object_contribution
    + results.risk.details.person_contribution

\* C24: the multiplier is applied exactly when at least two of the three
\* violation types are present, and then the score before the pattern score and
\* the cap is the multiplier times the sum of all contributions (the sum itself
\* otherwise).
C24_MultiplierOnTwoTypes ==
    results.kind = "scored" =>
        /\ results.risk.details.multiplier_applied <=> Cardinality(TypesPresent) >= 2
        /\ (results.risk.details.base_score - results.behavior.pattern_score) * 10
               = SummedContributions
                     * (IF Cardinality(TypesPresent) >= 2
                        THEN MULTIPLE_VIOLATIONS_MULTIPLIER_TENTHS ELSE 10)

\* one forbidden item at confidence 0.8 and two persons: 1.3 x (70 x 0.8 + 60)
C24_Witness ==
    /\ results.kind = "scored"
    /\ TypesPresent = {"object", "person"}
    /\ Len(results.objects.forbidden_items) = 1
    /\ results.objects.forbidden_items[1].confidence = 8
    /\ results.objects.person_count = 2
    /\ results.risk.details.multiplier_applied
    /\ (results.risk.details.base_score - results.behavior.pattern_score) * 100
           = MULTIPLE_VIOLATIONS_MULTIPLIER_TENTHS
                 * (FORBIDDEN_OBJECT_WEIGHT * 8 + SECONDARY_PERSON_WEIGHT * 10)
                 * ScoreScale

\* C25: an assessment of the scoring formula has alert level "critical" from
\* 80, "high" from 50 below 80, "medium" from 20 below 50 and "low" below 20,
\* never "none" or "error"; "none" is carried only by the results of a skipped
\* frame and "error" only by the results of a failed frame.
C25_AlertLevels ==
    results.kind \in {"scored", "frame"} =>
        LET score == results.risk.risk_score
            level == results.risk.alert_level
        IN /\ results.kind = "scored" =>
                  /\ level = "critical" <=> score >= 80 * ScoreScale
                  /\ level = "high" <=>
                         (score >= 50 * ScoreScale /\ score < 80 * ScoreScale)
                  /\ level = "medium" <=>
                         (score >= 20 * ScoreScale /\ score < 50 * ScoreScale)
                  /\ level = "low" <=> score < 20 * ScoreScale
                  /\ level \in {"critical", "high", "medium", "low"}
           /\ level = "none" =>
                  results.kind = "frame" /\ results.frame_skipped
           /\ level = "error" =>
                  /\ results.kind = "frame"
                  /\ ~results.frame_skipped
                  /\ results.reason = "error"
           /\ results.kind = "frame" => level \in {"none", "error"}

\* a score on the threshold of "high"
C25_Witness ==
    /\ results.kind = "scored"
    /\ results.risk.risk_score = 50 * ScoreScale
    /\ results.risk.alert_level = "high"

(***************************************************************************)
(* Properties of the gaze results as the scorer reads them, checked under  *)
(* SpecGaze.                                                               *)
(***************************************************************************)
\* C26, as the specification states it: when a deviation that had reached the
\* minimum scored duration is reported again less than the grace period after
\* the first frame that did not report it, every frame in between, and the
\* frame of the resumption, has a non-zero screen deviation contribution in its
\* risk assessment.
C26_Original ==
    [][ (Resumption /\ track.all_face /\ track.pre >= GAZE_DEVIATION_DURATION) =>
          /\ track.scored
          /\ ScreenContribution(results.gaze) > 0
          /\ ScreenContribution(results'.gaze) > 0
      ]_vars

\* the frame just handled left the tracker in GRACE: it had a face, sustained
\* deviation was false, and a deviation is still tracked
InGrace ==
    /\ results.kind = "gaze"
    /\ results.gaze.face_detected /\ ~results.gaze.deviation
    /\ gaze_detector.deviation_start_time # None
    /\ gaze_detector.last_normal_time # None

\* C27, as the specification states it: a frame that leaves the tracker in
\* GRACE reports as deviation_duration the time elapsed since the original
\* deviation start time, so more than the last deviating frame reported.
C27_Original ==
    InGrace =>
        /\ Duration = track.at - gaze_detector.deviation_start_time
        /\ Duration > track.pre

\* the frame just handled had a face and was classified as screen deviation,
\* and no other frame of the trailing flag window was
SingleDeviatingFrame ==
    /\ results.kind = "gaze" /\ results.gaze.face_detected
    /\ gaze_detector.deviation_history # <<>>
    /\ \A i \in 1..Len(gaze_detector.deviation_history) :
           gaze_detector.deviation_history[i]
               <=> i = Len(gaze_detector.deviation_history)

\* C28, as the specification states it: a frame classified as screen
\* deviation whose neighbours are classified as non-deviating (the frames
\* before it in the flag window, if any, and the face-detected frame after it)
\* does not report deviation and does not start the deviation timer, and
\* neither does the frame after it.
C28_Original ==
    [][ ( /\ SingleDeviatingFrame
          /\ results'.kind = "gaze" /\ results'.gaze.face_detected
          /\ ~gaze_detector'.deviation_history[Len(gaze_detector'.deviation_history)] )
        => /\ ~results.gaze.deviation
           /\ gaze_detector.deviation_start_time # results.at
           /\ ~results'.gaze.deviation
           /\ gaze_detector'.deviation_start_time # results'.at
      ]_vars

(***************************************************************************)
(* Further properties of calculate_score, checked under SpecScore.         *)
(***************************************************************************)
\* forbidden_object_weight x confidence of each forbidden item of the scored
\* bundle, scaled
ItemWeights ==
    [i \in 1..Len(results.objects.forbidden_items) |->
         (FORBIDDEN_OBJECT_WEIGHT * results.objects.forbidden_items[i].confidence
              * ScoreScale) \div 10]

\* C29: every forbidden item adds forbidden_object_weight x its confidence,
\* and the forbidden items together count as one violation type however many
\* they are; forbidden items alone leave the multiplier unapplied.
C29_ItemsAreOneType ==
    results.kind = "scored" =>
        /\ results.risk.details.object_contribution = SumSeq(ItemWeights)
        /\ results.risk.violation_count
               = (IF ScreenScored(results.gaze) THEN 1 ELSE 0)
                 + (IF results.objects.forbidden_items # <<>> THEN 1 ELSE 0)
                 + (IF results.objects.person_count > 1 THEN 1 ELSE 0)
        /\ TypesPresent = {"object"} =>
               /\ results.risk.violation_count = 1
               /\ ~results.risk.details.multiplier_applied
               /\ results.risk.details.base_score
                      = SumSeq(ItemWeights) + results.behavior.pattern_score

\* two forbidden items of different confidence and nothing else
C29_Witness ==
    /\ results.kind = "scored"
    /\ TypesPresent = {"object"}
    /\ Len(results.objects.forbidden_items) = 2
    /\ results.objects.forbidden_items[1].confidence = 8
    /\ results.objects.forbidden_items[2].confidence = 10
    /\ results.risk.violation_count = 1
    /\ results.risk.details.object_contribution
           = (FORBIDDEN_OBJECT_WEIGHT * 18 * ScoreScale) \div 10

\* the multiplier that applies to the scored bundle, in tenths
MultiplierTenths ==
    IF results.risk.details.multiplier_applied
    THEN MULTIPLE_VIOLATIONS_MULTIPLIER_TENTHS ELSE 10

\* C30: the pattern score is added after the multiplier and is not
\* multiplied: the risk score is min(100, m x (screen + object + person
\* contributions) + pattern score), computed from the reported details, with m
\* the multiplier when at least two violation types are present and 1
\* otherwise.
C30_PatternAddedUnmultiplied ==
    results.kind = "scored" =>
        /\ results.risk.details.behavior_contribution = results.behavior.pattern_score
        /\ results.risk.details.multiplier_applied <=> Cardinality(TypesPresent) >= 2
        /\ results.risk.risk_score * 10
               = Min(100 * ScoreScale * 10,
                     MultiplierTenths * SummedContributions
                         + 10 * results.risk.details.behavior_contribution)

\* the multiplier applies, there is a pattern score, and the cap is not reached
C30_Witness ==
    /\ results.kind = "scored"
    /\ results.risk.details.multiplier_applied
    /\ SummedContributions > 0
    /\ results.risk.details.behavior_contribution > 0
    /\ results.risk.risk_score < 100 * ScoreScale

(***************************************************************************)
(* Properties of the pattern analysis, checked under SpecWindow.           *)
(***************************************************************************)
\* the entries that are in the window of the session just analysed,
\* according to the log of what was handed to it
Window == LastEntries(appended[results.session_id],
                      Min(Len(appended[results.session_id]), WindowSize))

\* the weighted sum of the pattern score over Window, times the capacity and
\* the number of entries, scaled
PatternSum ==
    LET n == Len(Window)
        deviations == Cardinality({i \in 1..n : Window[i].deviation})
        objects == Cardinality({i \in 1..n : Window[i].forbidden_items # <<>>})
        persons == SumSeq([i \in 1..n |-> Window[i].person_count])
    IN (30 * deviations * n + 40 * objects * n + 30 * Max(0, persons - n) * WindowSize)
           * ScoreScale

\* C31: the pattern score of an analysis is min(100, 30 x deviations / capacity
\* + 40 x frames with objects / capacity + 30 x max(0, mean person count - 1))
\* over the entries that are in the window, and lies in [0, 100].
C31_PatternScore ==
    results.kind = "analysis" =>
        /\ results.behavior.pattern_score * WindowSize * Len(Window)
               = Min(100 * ScoreScale * WindowSize * Len(Window), PatternSum)
        /\ results.behavior.pattern_score >= 0
        /\ results.behavior.pattern_score <= 100 * ScoreScale

\* a window that is not full, that has lost no entry, and whose sum exceeds
\* the cap
C31_CappedWitness ==
    /\ results.kind = "analysis"
    /\ Len(Window) < WindowSize
    /\ PatternSum > 100 * ScoreScale * WindowSize * Len(Window)
    /\ results.behavior.pattern_score = 100 * ScoreScale

(***************************************************************************)
(* Properties of the window update of process_frame, checked under         *)
(* SpecEntries.                                                            *)
(***************************************************************************)
\* the entries of the window of session s, none when it has no window
EntriesOf(sessions, s) ==
    IF s \in DOMAIN sessions THEN WindowEntries(sessions[s]) ELSE <<>>

\* the entry of the frame just processed: the flag the gaze detector reported
\* and what the object detector saw, or the defaults of a detector that raised
FrameEntry(r) ==
    [ deviation |-> IF r.frame.fault \in {"gaze", "both"} THEN FALSE
                    ELSE r.gaze.deviation,
      forbidden_items |-> IF r.frame.fault \in {"objects", "both"} THEN <<>>
                          ELSE r.frame.objects.forbidden_items,
      person_count |-> IF r.frame.fault \in {"objects", "both"} THEN 0
                       ELSE r.frame.objects.person_count ]

\* C32: a frame that is admitted and analysed appends exactly one entry, its
\* own, to the window of its session (the oldest entry leaving a full window),
\* and leaves the windows of the other sessions as they were; the three series
\* of every window have the same length.
C32_OneEntryPerFrame ==
    [][ /\ ( IsFrameCall /\ results'.kind = "frame" /\ ~results'.frame_skipped
             /\ results'.reason # "error" ) =>
              LET s == results'.session_id
                  now_in == Append(EntriesOf(session_history, s), FrameEntry(results'))
              IN /\ EntriesOf(session_history', s)
                        = LastEntries(now_in, Min(Len(now_in), WindowSize))
                 /\ DOMAIN session_history' = DOMAIN session_history \cup {s}
                 /\ \A o \in DOMAIN session_history \ {s} :
                        session_history'[o] = session_history[o]
        /\ \A s \in DOMAIN session_history' :
              /\ Len(session_history'[s].forbidden_objects)
                     = Len(session_history'[s].gaze_deviations)
              /\ Len(session_history'[s].person_counts)
                     = Len(session_history'[s].gaze_deviations)
      ]_vars

\* a frame of s2 whose detectors both raised has been entered in the window of
\* s2, next to a window of s1 that holds an entry with a forbidden item
C32_Witness ==
    /\ results.kind = "frame" /\ ~results.frame_skipped /\ results.reason # "error"
    /\ results.session_id = "s2" /\ results.frame.fault = "both"
    /\ results.frame.objects.person_count = 2
    /\ "s1" \in DOMAIN session_history /\ "s2" \in DOMAIN session_history
    /\ session_history["s1"].person_counts = <<2>>
    /\ session_history["s2"].person_counts = <<0>>

(***************************************************************************)
(* Further properties of the scorer and the analyzer, checked under        *)
(* SpecScore.                                                              *)
(***************************************************************************)
\* the detection results of the scored bundle, with the given minor flag
WithMinor(flag) ==
    [ gaze |-> [results.gaze EXCEPT !.minor_deviation = flag],
      objects |-> results.objects,
      behavior |-> results.behavior ]

\* C33: the minor deviation flag is not scored: the same detection results
\* with the other value of the flag give the same window entry, the same
\* pattern analysis and the same risk assessment.
C33_MinorNotScored ==
    results.kind = "scored" =>
        /\ CalculateScore(WithMinor(~results.gaze.minor_deviation)) = results.risk
        /\ CalculateScore(WithMinor(results.gaze.minor_deviation)) = results.risk
        /\ AnalyzeSync(session_history, "s1", WithMinor(TRUE))
               = AnalyzeSync(session_history, "s1", WithMinor(FALSE))

\* a frame with a minor deviation lasting beyond the scored minimum, and no
\* screen deviation: nothing is scored for the gaze
C33_Witness ==
    /\ results.kind = "scored"
    /\ results.gaze.minor_deviation /\ ~results.gaze.deviation
    /\ results.gaze.deviation_duration >= GAZE_DEVIATION_DURATION
    /\ results.objects.person_count = 1 /\ results.objects.forbidden_items = <<>>
    /\ results.risk.violation_count = 0
    /\ results.risk.risk_score = results.behavior.pattern_score

\* the fixed actions of an alert level
TierActions(alert_level) ==
    IF alert_level = "critical"
    THEN << "Immediate intervention required", "Flag session for manual review",
            "Consider terminating session" >>
    ELSE IF alert_level = "high"
    THEN << "Issue warning to candidate", "Increase monitoring intensity",
            "Log incident for review" >>
    ELSE IF alert_level = "medium"
    THEN << "Monitor situation closely", "Log for pattern analysis" >>
    ELSE << "Continue normal monitoring" >>

\* the summary of the scored bundle carries the note
SummaryHas(note) ==
    \E i \in 1..Len(results.behavior.analysis_summary) :
        results.behavior.analysis_summary[i] = note

\* C34: the recommendations are the actions of the alert level, then the
\* identity actions iff person_count > 1, then the workspace actions iff there
\* is a forbidden item, then one escalation note for each of the two summary
\* flags that is present, and nothing else.
C34_Recommendations ==
    results.kind = "scored" =>
        results.risk.recommendations
            = TierActions(results.risk.alert_level)
              \o (IF results.objects.person_count > 1
                  THEN << "Verify candidate identity", "Request room scan" >>
                  ELSE <<>>)
              \o (IF results.objects.forbidden_items # <<>>
                  THEN << "Request removal of prohibited items",
                          "Verify workspace compliance" >>
                  ELSE <<>>)
              \o (IF SummaryHas("Frequent gaze deviations detected")
                  THEN << "Investigate frequent attention shifts" >> ELSE <<>>)
              \o (IF SummaryHas("Repeated forbidden object detections")
                  THEN << "Persistent object violation - escalate" >> ELSE <<>>)

\* every addition is present after the actions of the level "high": a second
\* person and a forbidden item of confidence 0, under both summary flags
C34_Witness ==
    /\ results.kind = "scored"
    /\ results.risk.alert_level = "high"
    /\ results.objects.person_count = 2
    /\ Len(results.risk.recommendations) = 9

(***************************************************************************)
(* Properties of the timing samples, checked under SpecTimings.            *)
(***************************************************************************)
\* C35, as the specification states it: after every call of process_frame,
\* whatever its outcome, at most 100 processing time samples and at most 100
\* preprocessing time samples are retained.
C35_Original ==
    /\ timings.processing_times <= TIMING_WINDOW
    /\ timings.preprocessing_times <= TIMING_WINDOW

(***************************************************************************)
(* Properties of the frame sampler, checked under SpecSampler.             *)
(***************************************************************************)
\* C36: a frame that is not admitted changes nothing of the sampler but the
\* count of frames received; an admitted frame becomes the reference frame
\* and its time the time of the last admission; and an admitted frame other
\* than the first comes at least 1/max_fps after the admission before it
\* (for a sampler with min_fps <= max_fps).
C36_ReplacedOnAdmissionOnly ==
    [][ IsFrameCall =>
          /\ results'.frame_skipped =>
                 frame_sampler' = [frame_sampler EXCEPT !.frame_count = @ + 1]
          /\ ~results'.frame_skipped =>
                 frame_sampler' = [frame_sampler EXCEPT
                                       !.frame_count = @ + 1,
                                       !.processed_count = @ + 1,
                                       !.prev_gray = results'.frame.gray,
                                       !.last_process_time = results'.at]
          /\ ( /\ ~results'.frame_skipped
               /\ frame_sampler.prev_gray # None
               /\ frame_sampler.min_fps <= frame_sampler.max_fps ) =>
                 (results'.at - frame_sampler.last_process_time)
                     * frame_sampler.max_fps >= 10
      ]_vars

\* a frame with motion was refused because it came too early: the reference
\* frame and the time of the last admission are still those of the first frame
C36_Witness ==
    /\ results.kind = "sampled" /\ results.frame_skipped
    /\ frame_sampler.frame_count = 2 /\ frame_sampler.processed_count = 1
    /\ Abs(results.frame.gray - frame_sampler.prev_gray) > frame_sampler.motion_threshold
    /\ results.at > frame_sampler.last_process_time
    /\ frame_sampler.min_fps <= frame_sampler.max_fps

(***************************************************************************)
(* process_frame_batch (core/detection_pipeline.py): one process_frame     *)
(* coroutine per frame of the batch, all for the same session, gathered.   *)
(* The event loop starts the coroutines in the order of the list; each     *)
(* runs to its first await (the admission by the sampler and the           *)
(* conditioning), and from there the detectors and the analyzer of each    *)
(* run in worker threads (run_in_executor) that the pool schedules in any  *)
(* order.  inflight is the list of the coroutines, each at its position.   *)
(***************************************************************************)
MaxBatch == 3

BatchSession == "s1"

BatchFrames ==
    { [gray |-> g, face |-> TRUE, yaw |-> y, pitch |-> 0,
       objects |-> [person_count |-> 1, forbidden_items |-> <<>>],
       fault |-> "none"] : g \in PipeGrays, y \in {0, -90} }

\* timestamp = time.time() + i * 0.05 for the i-th frame (i from 0), in tenths
\* of a second rounded down: the sampler compares the time since the last
\* admission with whole tenths only
BatchTimestamp(t, i) == t + ((i - 1) \div 2)

\* tasks = [self.process_frame(frame, session_id, timestamp) ...]
BatchTasks(frames, t) ==
    [i \in 1..MaxBatch |->
        [ pc |-> "created", frame |-> frames[i],
          timestamp |-> BatchTimestamp(t, i),
          gaze |-> DefaultGazeResults, objects |-> DefaultObjectResults,
          behavior |-> NoBehavior(""), reason |-> "" ]]

\* the coroutines of the batch that were admitted and have not returned
InStages(pcs) == {i \in DOMAIN inflight : inflight[i].pc \in pcs}

\* results = await asyncio.gather(*tasks, return_exceptions=True), on a
\* pipeline that has seen no frame yet
ProcessFrameBatchCall ==
    \E frames \in [1..MaxBatch -> BatchFrames], dt \in PipeDts :
        /\ inflight = NothingInFlight
        /\ frame_sampler.frame_count = 0
        /\ now + dt <= MaxClock
        /\ now' = now + dt
        /\ inflight' = BatchTasks(frames, now + dt)
        /\ results' = [NoResults EXCEPT !.kind = "batch", !.session_id = BatchSession,
                                        !.at = now + dt]
        /\ UNCHANGED <<gaze_detector, frame_sampler, session_history, skipped_frames,
                       track, appended, ref, ref_results, timings, manager, endpoint,
                       reply, broadcast>>

\* process_frame up to its first await: the coroutines start in the order of
\* the list, and each decides the admission of its frame before the next starts
BatchAdmission ==
    \E i \in DOMAIN inflight :
        /\ inflight[i].pc = "created"
        /\ \A j \in 1..(i - 1) : inflight[j].pc # "created"
        /\ \E sp \in {ShouldProcessFrame(frame_sampler, inflight[i].frame.gray,
                                         inflight[i].timestamp)} :
              /\ frame_sampler' = sp.fs
              /\ IF sp.should_process
                 THEN /\ inflight' = [inflight EXCEPT ![i].pc = "detectors",
                                                      ![i].reason = sp.reason]
                      /\ timings' = [timings EXCEPT !.preprocessing_times = @ + 1]
                      /\ UNCHANGED <<skipped_frames, results>>
                 ELSE /\ inflight' = [inflight EXCEPT ![i].pc = "skipped"]
                      /\ timings' = [timings EXCEPT !.preprocessing_times =
                                                        TrimPreprocessingTimes(@)]
                      /\ skipped_frames' = skipped_frames + 1
                      /\ results' = [SkippedFrameResults(BatchSession, now)
                                        EXCEPT !.frame = inflight[i].frame]
        /\ UNCHANGED <<gaze_detector, session_history, now, track, appended, ref,
                       ref_results, manager, endpoint, reply, broadcast>>

\* the worker thread of gaze_detector.detect of one coroutine runs
\* _detect_sync; the detector jobs are handed to the pool once every coroutine
\* of the batch has reached its first await
BatchDetectors ==
    \E i \in DOMAIN inflight :
        /\ inflight[i].pc = "detectors"
        /\ InStages({"created"}) = {}
        /\ \E g \in {GazeDetect(gaze_detector, inflight[i].frame, now)} :
              /\ gaze_detector' = g.gd
              /\ inflight' = [inflight EXCEPT
                                 ![i].pc = "analysis",
                                 ![i].gaze = GazeOrDefault(g),
                                 ![i].objects =
                                     ObjectsOrDefault(ObjectDetect(inflight[i].frame))]
        /\ UNCHANGED <<frame_sampler, session_history, skipped_frames, now, results,
                       track, appended, ref, ref_results, timings, manager, endpoint,
                       reply, broadcast>>

\* the worker thread of behavior_analyzer.analyze of one coroutine runs
\* _analyze_sync: the entry of the frame is appended to the window
BatchAnalysis ==
    \E i \in DOMAIN inflight :
        /\ inflight[i].pc = "analysis"
        /\ \E a \in {AnalyzeSync(session_history, BatchSession,
                                 [gaze |-> inflight[i].gaze,
                                  objects |-> inflight[i].objects])} :
              /\ session_history' = a.sessions
              /\ inflight' = [inflight EXCEPT ![i].pc = "scoring",
                                              ![i].behavior = a.out]
        /\ UNCHANGED <<gaze_detector, frame_sampler, skipped_frames, now, results,
                       track, appended, ref, ref_results, timings, manager, endpoint,
                       reply, broadcast>>

\* the rest of process_frame on the event loop: the score, the timing sample
\* and the result of the coroutine
BatchScoring ==
    \E i \in DOMAIN inflight :
        /\ inflight[i].pc = "scoring"
        /\ inflight' = [inflight EXCEPT ![i].pc = "done"]
        /\ timings' = [timings EXCEPT
                          !.processing_times = AppendProcessingTime(@),
                          !.preprocessing_times = TrimPreprocessingTimes(@)]
        /\ results' =
               [ kind |-> "frame", session_id |-> BatchSession,
                 gaze |-> inflight[i].gaze, objects |-> inflight[i].objects,
                 behavior |-> inflight[i].behavior,
                 risk |-> CalculateScore([gaze |-> inflight[i].gaze,
                                          objects |-> inflight[i].objects,
                                          behavior |-> inflight[i].behavior]),
                 frame_skipped |-> FALSE, reason |-> inflight[i].reason,
                 invoked |-> {"gaze", "objects"}, at |-> now,
                 frame |-> inflight[i].frame ]
        /\ UNCHANGED <<gaze_detector, frame_sampler, session_history, skipped_frames,
                       now, track, appended, ref, ref_results, manager, endpoint,
                       reply, broadcast>>

NextBatch ==
    \/ ProcessFrameBatchCall
    \/ BatchAdmission
    \/ BatchDetectors
    \/ BatchAnalysis
    \/ BatchScoring

SpecBatch == Init /\ [][NextBatch]_vars

(***************************************************************************)
(* Properties of a batch of frames, checked under SpecBatch.               *)
(***************************************************************************)
\* the position of a coroutine of the batch, as a number
Stage(pc) ==
    CASE pc = "created" -> 0
      [] pc = "detectors" -> 1
      [] pc = "analysis" -> 2
      [] pc = "scoring" -> 3
      [] OTHER -> 4

\* C37, as the specification states it: at most one frame of a session is
\* inside the detection stages (gaze timer update, window update) at any
\* instant, and the frames of a batch go through them in the order of
\* submission: no frame has had its timer update or its window update while
\* an earlier admitted frame of the batch still waits for its own.
C37_Original ==
    /\ Cardinality(InStages({"detectors", "analysis"})) <= 1
    /\ \A i, j \in DOMAIN inflight :
          ( /\ i < j
            /\ inflight[i].pc # "skipped" /\ inflight[j].pc # "skipped" ) =>
              /\ Stage(inflight[j].pc) >= 2 => Stage(inflight[i].pc) >= 2
              /\ Stage(inflight[j].pc) >= 3 => Stage(inflight[i].pc) >= 3

(***************************************************************************)
(* Two frames of different sessions in flight: GazeDetector.detect hands   *)
(* _detect_sync to the default thread pool (run_in_executor), and the one  *)
(* detector is shared by every session, with no lock.  Each worker thread  *)
(* executes the statements of _detect_sync on the shared tracker, and the  *)
(* threads are interleaved between statements.  inflight maps a worker to  *)
(* the call it runs, at its position.  pc names the statement to execute   *)
(* next:                                                                   *)
(*   "mesh"      the face mesh, the histories, is_sustained_deviation and  *)
(*               current_time = time.time()                                *)
(*   "nf1".."nf3" the three assignments of the no-face branch              *)
(*   "d1".."d3"  the branch is_deviation                                   *)
(*   "n1"        if self.deviation_start_time is not None                  *)
(*   "g1".."g6"  the grace branch                                          *)
(*   "i1","i2"   the idle branch                                           *)
(*   "ret"       the read of current_deviation_duration for the result     *)
(*   "returned", "raised"  the call is over                                *)
(***************************************************************************)
MaxThreadFrames == 3

Workers == {"w1", "w2"}

ThreadDts == {0, 5, 15}

ThreadPoses == { <<0, 0>>, <<-90, 0>> }

Other(w) == CHOOSE v \in Workers : v # w

\* the worker runs a call of _detect_sync that is not over
Running(w) == w \in DOMAIN inflight /\ inflight[w].pc \notin {"returned", "raised"}

\* the number of calls a worker has been handed
Started(w) == IF w \in DOMAIN inflight THEN inflight[w].started ELSE 0

\* loop.run_in_executor(None, self._detect_sync, frame): a worker that is free
\* takes the frame.  base (the tracker when the first call of a pair started)
\* and paired (another call was running meanwhile) are observations.
DetectStart ==
    \E w \in Workers, face \in BOOLEAN, pose \in ThreadPoses, dt \in ThreadDts :
        /\ ~Running(w)
        /\ Running(Other(w)) => ~inflight[Other(w)].paired
        /\ Started(w) + Started(Other(w)) < MaxThreadFrames
        /\ now + dt <= MaxClock
        /\ (~face => pose = <<0, 0>>)
        /\ now' = now + dt
        /\ inflight' =
               [v \in DOMAIN inflight \cup {w} |->
                   IF v = w
                   THEN [ pc |-> "mesh", face |-> face, yaw |-> pose[1],
                          pitch |-> pose[2], is_deviation |-> FALSE,
                          minor_deviation |-> FALSE,
                          current_time |-> None, time_since_normal |-> None,
                          started |-> Started(w) + 1,
                          paired |-> Running(Other(w)),
                          base |-> IF Running(Other(w))
                                   THEN inflight[Other(w)].base ELSE gaze_detector ]
                   ELSE IF Running(v) THEN [inflight[v] EXCEPT !.paired = TRUE]
                   ELSE inflight[v]]
        /\ UNCHANGED <<gaze_detector, frame_sampler, session_history, skipped_frames,
                       results, track, appended, ref, ref_results, timings, manager,
                       endpoint, reply, broadcast>>

\* _detect_sync up to the call of _update_deviation_duration_with_grace, and
\* current_time = time.time() in it
DetectMesh ==
    \E w \in DOMAIN inflight :
        /\ inflight[w].pc = "mesh"
        /\ IF ~inflight[w].face
           THEN /\ inflight' = [inflight EXCEPT ![w].pc = "nf1"]
                /\ UNCHANGED gaze_detector
           ELSE LET yh == DequeAppend(gaze_detector.yaw_history, inflight[w].yaw,
                                      HEAD_POSE_SMOOTHING_WINDOW)
                    ph == DequeAppend(gaze_detector.pitch_history, inflight[w].pitch,
                                      HEAD_POSE_SMOOTHING_WINDOW)
                    chk == CheckDeviation(SmoothedAngle(yh), SmoothedAngle(ph))
                    dh == DequeAppend(gaze_detector.deviation_history,
                                      chk.screen_deviation, HEAD_POSE_SMOOTHING_WINDOW)
                IN /\ gaze_detector' = [gaze_detector EXCEPT !.yaw_history = yh,
                                                             !.pitch_history = ph,
                                                             !.deviation_history = dh]
                   /\ inflight' = [inflight EXCEPT
                          ![w].is_deviation = IsSustainedDeviation(dh),
                          ![w].minor_deviation = chk.minor_deviation,
                          ![w].current_time = now,
                          ![w].pc = IF IsSustainedDeviation(dh) THEN "d1" ELSE "n1"]
        /\ UNCHANGED <<frame_sampler, session_history, skipped_frames, now, results,
                       track, appended, ref, ref_results, timings, manager, endpoint,
                       reply, broadcast>>

\* one statement of the tracker update by the thread th on the tracker gd:
\* the tracker and the thread after it.  current_time - None raises TypeError.
TrackerStatement(gd, th) ==
    LET pc == th.pc
        t == th.current_time
    IN CASE pc = "nf1" ->
              [ gd |-> [gd EXCEPT !.deviation_start_time = None],
                th |-> [th EXCEPT !.pc = "nf2"] ]
         [] pc = "nf2" ->
              [ gd |-> [gd EXCEPT !.current_deviation_duration = 0],
                th |-> [th EXCEPT !.pc = "nf3"] ]
         [] pc = "nf3" ->
              [ gd |-> [gd EXCEPT !.last_normal_time = None],
                th |-> [th EXCEPT !.pc = "ret"] ]
         [] pc = "d1" ->
              [ gd |-> IF gd.deviation_start_time = None
                       THEN [gd EXCEPT !.deviation_start_time = t] ELSE gd,
                th |-> [th EXCEPT !.pc = "d2"] ]
         [] pc = "d2" ->
              [ gd |-> [gd EXCEPT !.last_normal_time = None],
                th |-> [th EXCEPT !.pc = "d3"] ]
         [] pc = "d3" ->
              IF gd.deviation_start_time = None
              THEN [ gd |-> gd, th |-> [th EXCEPT !.pc = "raised"] ]
              ELSE [ gd |-> [gd EXCEPT !.current_deviation_duration =
                                           t - gd.deviation_start_time],
                     th |-> [th EXCEPT !.pc = "ret"] ]
         [] pc = "n1" ->
              [ gd |-> gd,
                th |-> [th EXCEPT !.pc = IF gd.deviation_start_time # None
                                         THEN "g1" ELSE "i1"] ]
         [] pc = "g1" ->
              [ gd |-> IF gd.last_normal_time = None
                       THEN [gd EXCEPT !.last_normal_time = t] ELSE gd,
                th |-> [th EXCEPT !.pc = "g2"] ]
         [] pc = "g2" ->
              IF gd.last_normal_time = None
              THEN [ gd |-> gd, th |-> [th EXCEPT !.pc = "raised"] ]
              ELSE [ gd |-> gd,
                     th |-> [th EXCEPT !.time_since_normal = t - gd.last_normal_time,
                                       !.pc = "g3"] ]
         [] pc = "g3" ->
              [ gd |-> gd,
                th |-> [th EXCEPT !.pc = IF GraceElapsed(th.time_since_normal)
                                         THEN "g4" ELSE "ret"] ]
         [] pc = "g4" ->
              [ gd |-> [gd EXCEPT !.deviation_start_time = None],
                th |-> [th EXCEPT !.pc = "g5"] ]
         [] pc = "g5" ->
              [ gd |-> [gd EXCEPT !.current_deviation_duration = 0],
                th |-> [th EXCEPT !.pc = "g6"] ]
         [] pc = "g6" ->
              [ gd |-> [gd EXCEPT !.last_normal_time = None],
                th |-> [th EXCEPT !.pc = "ret"] ]
         [] pc = "i1" ->
              [ gd |-> [gd EXCEPT !.current_deviation_duration = 0],
                th |-> [th EXCEPT !.pc = "i2"] ]
         [] pc = "i2" ->
              [ gd |-> [gd EXCEPT !.last_normal_time = None],
                th |-> [th EXCEPT !.pc = "ret"] ]

TrackerPcs ==
    {"nf1", "nf2", "nf3", "d1", "d2", "d3", "n1", "g1", "g2", "g3", "g4", "g5", "g6",
     "i1", "i2"}

\* a worker thread executes its next statement on the shared tracker
DetectStatement ==
    \E w \in DOMAIN inflight :
        /\ inflight[w].pc \in TrackerPcs
        /\ \E r \in {TrackerStatement(gaze_detector, inflight[w])} :
              /\ gaze_detector' = r.gd
              /\ inflight' = [inflight EXCEPT ![w] = r.th]
              /\ IF r.th.pc = "raised"
                 THEN results' = [NoResults EXCEPT !.kind = "gaze",
                                                   !.gaze = DefaultGazeResults,
                                                   !.at = now]
                 ELSE UNCHANGED results
        /\ UNCHANGED <<frame_sampler, session_history, skipped_frames, now, track,
                       appended, ref, ref_results, timings, manager, endpoint, reply,
                       broadcast>>

\* the dictionary _detect_sync returns: deviation_duration is read from the
\* tracker when the dictionary is built
DetectReturn ==
    \E w \in DOMAIN inflight :
        /\ inflight[w].pc = "ret"
        /\ inflight' = [inflight EXCEPT ![w].pc = "returned"]
        /\ results' =
               [NoResults EXCEPT
                  !.kind = "gaze", !.at = now,
                  !.gaze = IF ~inflight[w].face THEN NoFaceResults
                           ELSE [ face_detected |-> TRUE,
                                  yaw |-> SmoothedAngle(gaze_detector.yaw_history),
                                  pitch |-> SmoothedAngle(gaze_detector.pitch_history),
                                  deviation |-> inflight[w].is_deviation,
                                  minor_deviation |-> inflight[w].minor_deviation,
                                  deviation_duration |->
                                      gaze_detector.current_deviation_duration,
                                  confidence |-> 85 ]]
        /\ UNCHANGED <<gaze_detector, frame_sampler, session_history, skipped_frames,
                       now, track, appended, ref, ref_results, timings, manager,
                       endpoint, reply, broadcast>>

NextThreads ==
    \/ DetectStart
    \/ DetectMesh
    \/ DetectStatement
    \/ DetectReturn

SpecThreads == Init /\ [][NextThreads]_vars

(***************************************************************************)
(* Properties of concurrent gaze updates, checked under SpecThreads.       *)
(***************************************************************************)
\* the tracker update of the call th, run alone on the tracker gd
UpdateAlone(gd, th) ==
    IF ~th.face THEN NoFaceReset(gd)
    ELSE UpdateDeviationDurationWithGrace(gd, th.is_deviation, th.current_time)

\* the timer fields after the updates of the calls a and b in either order
SequentialOutcomes(gd, a, b) ==
    { Timer(UpdateAlone(UpdateAlone(gd, a), b)),
      Timer(UpdateAlone(UpdateAlone(gd, b), a)) }

\* C38, as the specification states it: two gaze updates in flight at the
\* same time never make one another raise (which would degrade the frame to
\* the face_detected = false default), and when both are over the start time,
\* the duration and the looking-normal time are what one of the two
\* sequential orders of the updates produces.
C38_Original ==
    /\ \A w \in DOMAIN inflight : inflight[w].pc # "raised"
    /\ ( /\ DOMAIN inflight = Workers
         /\ \A w \in Workers : inflight[w].pc = "returned" /\ inflight[w].paired ) =>
           Timer(gaze_detector) \in
               SequentialOutcomes(inflight["w1"].base, inflight["w1"], inflight["w2"])

(***************************************************************************)
(* The states of the duration tracker, checked under SpecGaze.             *)
(***************************************************************************)
\* no deviation is timed
TrackerIdle ==
    /\ gaze_detector.deviation_start_time = None
    /\ gaze_detector.current_deviation_duration = 0
    /\ gaze_detector.last_normal_time = None

\* a deviation is timed and the last frame was not a normal one
TrackerDeviating ==
    /\ gaze_detector.deviation_start_time # None
    /\ gaze_detector.last_normal_time = None

\* a deviation is timed and the grace period runs
TrackerGrace ==
    /\ gaze_detector.deviation_start_time # None
    /\ gaze_detector.last_normal_time # None

\* C39: under sequential frames (with or without a face) and resets, the
\* tracker is in exactly one of IDLE, DEVIATING and GRACE: with the start time
\* unset the duration is 0 and the looking-normal time is unset, the
\* looking-normal time is set only while the start time is set, and the
\* duration is never negative.
C39_TrackerStates ==
    /\ Cardinality({st \in {"IDLE", "DEVIATING", "GRACE"} :
                       \/ st = "IDLE" /\ TrackerIdle
                       \/ st = "DEVIATING" /\ TrackerDeviating
                       \/ st = "GRACE" /\ TrackerGrace}) = 1
    /\ gaze_detector.deviation_start_time = None =>
           /\ gaze_detector.current_deviation_duration = 0
           /\ gaze_detector.last_normal_time = None
    /\ gaze_detector.last_normal_time # None =>
           gaze_detector.deviation_start_time # None
    /\ gaze_detector.current_deviation_duration >= 0

\* the tracker is IDLE again after a grace period that ran out: the deviation
\* was timed, a normal frame started the grace period, and the frame that
\* ended it reset every field
C39_Witness ==
    /\ results.kind = "gaze" /\ results.gaze.face_detected
    /\ ~results.gaze.deviation
    /\ track.phase = "normal" /\ track.after_dev /\ track.all_face
    /\ track.pre > 0
    /\ results.at - track.since >= DEVIATION_GRACE_PERIOD
    /\ TrackerIdle

(***************************************************************************)
(* Connections that share a session id.  websocket_endpoint runs once per  *)
(* connection; ConnectionManager keys its registry by the session id of    *)
(* the URL, so a connection that registers under an id already in use      *)
(* replaces the entry of the one before it.  inflight maps a connection to *)
(* the websocket_endpoint coroutine that serves it; registered tells that  *)
(* active_connections[session_id] is the socket of this connection.        *)
(***************************************************************************)
Connections == {"c1", "c2", "c3"}

\* the session id in the URL of a connection
SessionOf(c) == IF c = "c3" THEN "s2" ELSE "s1"

\* the entry of a session id in active_connections no longer holds the
\* socket of any of the coroutines
Unregister(coroutines, session_id) ==
    [d \in DOMAIN coroutines |->
        IF coroutines[d].session_id = session_id
        THEN [coroutines[d] EXCEPT !.registered = FALSE]
        ELSE coroutines[d]]

\* websocket_endpoint up to the receive loop, for a connection of its own:
\* manager.connect stores the socket under the session id
ConnectionOpens ==
    \E c \in Connections :
        /\ c \notin DOMAIN inflight
        /\ manager' = ManagerConnect(manager, SessionOf(c), 0)
        /\ reply' = SendMessage(manager', SessionOf(c), "connected",
                                "WebSocket connection established")
        /\ inflight' =
               [d \in DOMAIN inflight \cup {c} |->
                   IF d = c
                   THEN [ pc |-> "loop", session_id |-> SessionOf(c),
                          frames_processed |-> 0, registered |-> TRUE ]
                   ELSE Unregister(inflight, SessionOf(c))[d]]
        /\ results' = Handled("connected", SessionOf(c))
        /\ UNCHANGED <<gaze_detector, frame_sampler, session_history, skipped_frames,
                       now, track, appended, ref, ref_results, timings, endpoint,
                       broadcast>>

\* the loop body of a connection for a frame message that decodes to an image
ConnectionFrame ==
    \E c \in DOMAIN inflight, frame \in SocketFrames, dt \in SocketDts :
        /\ inflight[c].pc = "loop"
        /\ frame_sampler.frame_count < MaxSocketFrames
        /\ now' = now + dt
        /\ \E message \in {[type |-> "frame", data |-> "ok", frame |-> frame,
                            timestamp |-> now']} :
              \E r \in {ProcessFrameMessage(Pipeline, message, SessionOf(c), now')} :
                  /\ SetPipeline(r.p)
                  /\ results' = [r.results EXCEPT !.frame = frame]
                  /\ manager' = UpdateSessionMetadata(manager, SessionOf(c),
                                                      inflight[c].frames_processed + 1)
                  /\ inflight' = [inflight EXCEPT ![c].frames_processed = @ + 1]
                  /\ reply' = SendMessage(manager', SessionOf(c), "analysis",
                                          r.results.risk.alert_level)
        /\ UNCHANGED <<track, appended, ref, ref_results, endpoint, broadcast>>

\* WebSocketDisconnect in the loop of a connection: manager.disconnect and
\* pipeline.clear_session, both by the session id
ConnectionCloses ==
    \E c \in DOMAIN inflight :
        /\ inflight[c].pc = "loop"
        /\ manager' = ManagerDisconnect(manager, SessionOf(c))
        /\ SetPipeline(ClearSession(Pipeline, SessionOf(c)))
        /\ inflight' = [Unregister(inflight, SessionOf(c)) EXCEPT ![c].pc = "closed"]
        /\ reply' = NoReply
        /\ results' = Handled("closed", SessionOf(c))
        /\ UNCHANGED <<now, track, appended, ref, ref_results, endpoint, broadcast>>

NextReconnect ==
    \/ ConnectionOpens
    \/ ConnectionFrame
    \/ ConnectionCloses

SpecReconnect == Init /\ [][NextReconnect]_vars

(***************************************************************************)
(* Properties of connections that share a session id, checked under        *)
(* SpecReconnect.                                                          *)
(***************************************************************************)
\* C40, as the specification states it: a connection that is open and stays
\* open through a step keeps its registry entry and its session keeps its
\* window, whatever another connection under the same session id does: the
\* closing of an earlier connection removes neither.
C40_Original ==
    [][ \A d \in DOMAIN inflight :
          ( /\ inflight[d].pc = "loop" /\ inflight'[d].pc = "loop"
            /\ \E c \in DOMAIN inflight :
                  c # d /\ inflight[c].pc = "loop" /\ inflight'[c].pc = "closed" ) =>
              /\ inflight[d].registered =>
                    /\ inflight'[d].registered
                    /\ SessionOf(d) \in manager'.active_connections
              /\ SessionOf(d) \in DOMAIN session_history =>
                    SessionOf(d) \in DOMAIN session_history'
      ]_vars

====
